---- MODULE Spec2Model ----
(***************************************************************************)
(* State-machine model of the traffic simulation: the Simulation Engine    *)
(* (run_simulation, spawn_vehicle, simulate_vehicle_journey, Lane), the    *)
(* Traffic Light Controller (IntersectionController and                    *)
(* TrafficLightController) and the Flow Analyzer's HistoricalData.         *)
(*                                                                         *)
(* Time is abstracted: a sleep is a suspension point after which the task  *)
(* resumes at an arbitrary later moment, and a timestamp is "None"/"Some". *)
(* Every critical section (one Mutex guard's scope) is one atomic step.    *)
(***************************************************************************)
EXTENDS Integers, Sequences, FiniteSets, TLC

VARIABLES
    lanes,              \* Arc<Mutex<Vec<Lane>>>: lane name -> mutable lane fields
    controllers,        \* TrafficLightController.controllers
    tasks,              \* the spawned simulate_vehicle_journey tasks, in spawn order
    next_vehicle_id,    \* run_simulation's id counter
    produced_ids,       \* history: the ids handed to Vehicle::new, in order
    active_ids,         \* Arc<Mutex<HashSet<u64>>>
    vehicle_events,     \* Arc<Mutex<Vec<VehicleData>>>
    main_pc,            \* position of run_simulation inside its loop body
    current_traffic_data, \* the loop iteration's snapshot
    historical,         \* the analyzer's HistoricalData
    last_call,          \* history: the controller method its client called last
    arrivals,           \* history: the ids in the order of their first admission attempt
    mq,                 \* the broker's deliveries and the two consumers' positions
    locks,              \* who holds which Mutex, and each task's position between locks
    broker,             \* the four queues and what each of their consumers has received
    rush,               \* run_simulation's clock readings and the spawn count drawn from them
    grid                \* the intersections and lanes of a pending call of TrafficLightController::initialize

vars == <<lanes, controllers, tasks, next_vehicle_id, produced_ids, active_ids,
          vehicle_events, main_pc, current_traffic_data, historical, last_call,
          arrivals, mq, locks, broker, rush, grid>>

wire_vars == <<broker, rush, grid>>

more_vars == <<arrivals, mq, locks, wire_vars>>

engine_vars == <<lanes, tasks, next_vehicle_id, produced_ids, active_ids,
                 vehicle_events, main_pc, current_traffic_data>>

-----------------------------------------------------------------------------
(* Bounds of the model *)

\* Vehicle tasks the model lets run_simulation start.
MaxTasks == 1
\* Ids the spawner may hand out (a discarded spawn uses one up too).
MaxIds == 2
\* Length of every lane of the model's road graph (the source's lanes are
\* 100..800 m; a short lane lets two vehicles fill it).
LaneLen == 4
\* Largest new_duration passed to set_phase_duration.
MaxDuration == 2
\* Largest capacity passed to HistoricalData::new.
MaxCapacity == 2
\* Cap on the length a history deque may reach before the model stops appending.
MaxSamples == 3

(* Program constants *)

\* duration of every phase built by TrafficLightController::initialize
InitialPhaseDuration == 8
\* "base duration" of adjust_phase_durations_based_on_prediction
PredictionBase == 1
\* capacity of the analyzer's HistoricalData
AnalyzerCapacity == 10

-----------------------------------------------------------------------------
(* Helpers over sequences (Rust Vec / VecDeque) *)

Range(s) == {s[k] : k \in 1..Len(s)}

Contains(s, x) == \E k \in 1..Len(s) : s[k] = x

MapName(s) == [k \in 1..Len(s) |-> s[k].name]

\* VecDeque::remove(pos) / Vec::remove(pos), 1-based
RemoveAt(s, pos) == [k \in 1..(Len(s) - 1) |-> IF k < pos THEN s[k] ELSE s[k + 1]]

\* Iterator::position, 1-based; 0 when absent
RECURSIVE PositionFrom(_, _, _)
PositionFrom(s, x, k) ==
    IF k > Len(s) THEN 0
    ELSE IF s[k] = x THEN k
    ELSE PositionFrom(s, x, k + 1)

Position(s, x) == PositionFrom(s, x, 1)

RECURSIVE SumSeq(_)
SumSeq(s) == IF s = <<>> THEN 0 ELSE Head(s) + SumSeq(Tail(s))

\* f64::round on a non-negative num / den: nearest integer, half away from zero
RoundHalfAway(num, den) == (2 * num + den) \div (2 * den)

-----------------------------------------------------------------------------
(* Static topology: the north-east corner of the grid, rows of              *)
(* create_intersections and create_lanes.  (0,2) is the one intersection   *)
(* that gets a controller: two phases, the horizontal lane and the vertical *)
(* lane.  (1,2) and (1,3) have no outgoing lane here, so a spawn bound from *)
(* or to (1,3) finds no route.                                              *)

Intersections ==
    << [id |-> <<0, 2>>, is_entry |-> TRUE,  is_exit |-> FALSE, control |-> "TrafficLight"],
       [id |-> <<0, 3>>, is_entry |-> FALSE, is_exit |-> TRUE,  control |-> "Normal"],
       [id |-> <<1, 2>>, is_entry |-> FALSE, is_exit |-> FALSE, control |-> "TrafficLight"],
       [id |-> <<1, 3>>, is_entry |-> TRUE,  is_exit |-> TRUE,  control |-> "TrafficLight"] >>

LaneTable ==
    << [name |-> "(0,2) -> (0,3)", from |-> <<0, 2>>, to |-> <<0, 3>>, length_meters |-> LaneLen],
       [name |-> "(0,2) -> (1,2)", from |-> <<0, 2>>, to |-> <<1, 2>>, length_meters |-> LaneLen] >>

IntersectionIds == {Intersections[k].id : k \in 1..Len(Intersections)}

LaneNames == {LaneTable[k].name : k \in 1..Len(LaneTable)}

LaneInfo(name) == CHOOSE l \in Range(LaneTable) : l.name = name

IntersectionInfo(id) == CHOOSE i \in Range(Intersections) : i.id = id

\* Lane::new
LaneNew(name, from, to, length_meters) ==
    [name |-> name,
     from |-> from,
     to |-> to,
     length_meters |-> length_meters,
     current_vehicle_length |-> 0,
     has_emergency_vehicle |-> FALSE,
     has_accident |-> FALSE,
     vehicle_queue |-> <<>>]

\* create_lanes: the Vec<Lane> handed to run_simulation, keyed by lane name
CreateLanes ==
    [n \in LaneNames |->
        LaneNew(n, LaneInfo(n).from, LaneInfo(n).to, LaneInfo(n).length_meters)]

-----------------------------------------------------------------------------
(* Vehicles *)

VehicleTypes == {"Car", "Bus", "Truck", "EmergencyVan"}

\* the types the model's spawner draws: one that queues at a red light and
\* counts against the lane's capacity, and the one that does neither
SpawnTypes == {"Car", "EmergencyVan"}

\* the severities the model's accident roll draws out of 1..=3
CrashSeverities == {1, 3}

\* the `length` match of Vehicle::new
VehicleLength(vehicle_type) ==
    CASE vehicle_type = "Car" -> 2
      [] vehicle_type = "Bus" -> 6
      [] vehicle_type = "Truck" -> 4
      [] vehicle_type = "EmergencyVan" -> 3

\* Vehicle::new.  speed, waiting_time and waiting_start are durations and
\* instants; they go with the clock.
VehicleNew(id, vehicle_type, entry_point, exit_point) ==
    [id |-> id,
     vehicle_type |-> vehicle_type,
     entry_point |-> entry_point,
     exit_point |-> exit_point,
     length |-> VehicleLength(vehicle_type),
     is_in_lane |-> FALSE,
     is_accident |-> FALSE,
     severity |-> 0,
     accident_timestamp |-> "None"]

\* Vehicle::is_emergency
IsEmergency(vehicle) == vehicle.vehicle_type = "EmergencyVan"

-----------------------------------------------------------------------------
(* Lane admission and release *)

\* what vehicle_queue keeps of the cloned Vehicle
QueueEntry(vehicle) ==
    [id |-> vehicle.id, vehicle_type |-> vehicle.vehicle_type, length |-> vehicle.length]

\* faulty variant of can_add_vehicle: the capacity is not looked at
CanAddVehicleNoCapacity(lane, vehicle) == ~lane.has_emergency_vehicle

\* Lane::can_add_vehicle
CanAddVehicle(lane, vehicle) ==
    IF lane.has_emergency_vehicle
    THEN FALSE
    ELSE lane.current_vehicle_length + vehicle.length <= lane.length_meters

\* Lane::add_vehicle, its bool result
AddVehicleResult(lane, vehicle) ==
    IF IsEmergency(vehicle) THEN TRUE
    ELSE CanAddVehicle(lane, vehicle)

\* Lane::add_vehicle, its effect on the lane
AddVehicle(lane, vehicle) ==
    IF IsEmergency(vehicle)
    THEN [lane EXCEPT !.has_emergency_vehicle = TRUE,
                      !.vehicle_queue = Append(@, QueueEntry(vehicle))]
    ELSE IF CanAddVehicle(lane, vehicle)
    THEN [lane EXCEPT !.current_vehicle_length = @ + vehicle.length,
                      !.vehicle_queue = Append(@, QueueEntry(vehicle))]
    ELSE lane

\* position of the first queue entry with the vehicle's id (0: none)
QueuePosition(queue, id) ==
    Position([k \in 1..Len(queue) |-> queue[k].id], id)

\* Lane::remove_vehicle
RemoveVehicle(lane, vehicle) ==
    LET pos == QueuePosition(lane.vehicle_queue, vehicle.id) IN
    IF pos = 0 THEN lane
    ELSE IF ~IsEmergency(vehicle)
    THEN IF lane.current_vehicle_length >= vehicle.length
         THEN [lane EXCEPT !.vehicle_queue = RemoveAt(@, pos),
                           !.current_vehicle_length = @ - vehicle.length]
         ELSE [lane EXCEPT !.vehicle_queue = RemoveAt(@, pos)]
    ELSE [lane EXCEPT !.vehicle_queue = RemoveAt(@, pos),
                      !.has_emergency_vehicle = FALSE]

-----------------------------------------------------------------------------
(* IntersectionController *)

\* Option<Vec<String>>: <<>> is None, <<v>> is Some(v)
NoOverride == <<>>

SomeOverride(lane_seq) == <<lane_seq>>

\* IntersectionController::new
IntersectionControllerNew(intersection, phases, all_lanes) ==
    [intersection |-> intersection.id,
     phases |-> phases,
     current_phase_index |-> 0,
     elapsed_in_phase |-> 0,
     all_lanes |-> all_lanes,
     emergency_override |-> NoOverride]

\* the phase Vec is indexed from 0 in the source
CurrentPhase(ctrl) == ctrl.phases[ctrl.current_phase_index + 1]

\* faulty variant of update: the cycle runs on under an emergency override
CtrlUpdateThroughOverride(ctrl) ==
    LET elapsed == ctrl.elapsed_in_phase + 1 IN
    IF elapsed >= CurrentPhase(ctrl).duration
    THEN [ctrl EXCEPT !.elapsed_in_phase = 0,
                      !.current_phase_index = (@ + 1) % Len(ctrl.phases)]
    ELSE [ctrl EXCEPT !.elapsed_in_phase = elapsed]

\* faulty variant of update: the phase is left one tick late
CtrlUpdateLate(ctrl) ==
    IF ctrl.emergency_override # NoOverride
    THEN ctrl
    ELSE LET elapsed == ctrl.elapsed_in_phase + 1 IN
         IF elapsed > CurrentPhase(ctrl).duration
         THEN [ctrl EXCEPT !.elapsed_in_phase = 0,
                           !.current_phase_index = (@ + 1) % Len(ctrl.phases)]
         ELSE [ctrl EXCEPT !.elapsed_in_phase = elapsed]

\* IntersectionController::update
CtrlUpdate(ctrl) ==
    IF ctrl.emergency_override # NoOverride
    THEN ctrl
    ELSE LET elapsed == ctrl.elapsed_in_phase + 1 IN
         IF elapsed >= CurrentPhase(ctrl).duration
         THEN [ctrl EXCEPT !.elapsed_in_phase = 0,
                           !.current_phase_index = (@ + 1) % Len(ctrl.phases)]
         ELSE [ctrl EXCEPT !.elapsed_in_phase = elapsed]

\* faulty variant of the congestion test: a prediction of exactly 0.8 counts
HighCongestionAtThreshold(congestion) == congestion >= 80

\* congestion values are percentages: 0.8 is 80
HighCongestion(congestion) == congestion > 80

\* IntersectionController::adjust_phase_durations_based_on_prediction;
\* predicted_data is a function from some lane names to congestion
CtrlAdjustPhaseDurationsBasedOnPrediction(ctrl, predicted_data) ==
    [ctrl EXCEPT !.phases =
        [k \in 1..Len(ctrl.phases) |->
            LET phase == ctrl.phases[k]
                extra_seconds ==
                    IF \E j \in 1..Len(phase.green_lanes) :
                          /\ phase.green_lanes[j] \in DOMAIN predicted_data
                          /\ HighCongestion(predicted_data[phase.green_lanes[j]])
                    THEN 1 ELSE 0
            IN [phase EXCEPT !.duration = PredictionBase + extra_seconds]]]

\* faulty variant of set_phase_duration: the index is not looked at
CtrlSetPhaseDurationFirst(ctrl, phase_index, new_duration) ==
    [ctrl EXCEPT !.phases[1].duration = new_duration]

\* IntersectionController::set_phase_duration (phase_index counted from 0)
CtrlSetPhaseDuration(ctrl, phase_index, new_duration) ==
    IF phase_index < Len(ctrl.phases)
    THEN [ctrl EXCEPT !.phases[phase_index + 1].duration = new_duration]
    ELSE ctrl

\* IntersectionController::set_emergency_override
CtrlSetEmergencyOverride(ctrl, emergency_route) ==
    [ctrl EXCEPT !.emergency_override = SomeOverride(emergency_route)]

\* IntersectionController::clear_emergency_override
CtrlClearEmergencyOverride(ctrl) ==
    [ctrl EXCEPT !.emergency_override = NoOverride]

-----------------------------------------------------------------------------
(* TrafficLightController *)

\* the lanes of lane_table that leave the intersection
ConnectedLanesIn(lane_table, intersection) ==
    SelectSeq(lane_table, LAMBDA lane : lane.from = intersection.id)

ConnectedLanes(intersection) == ConnectedLanesIn(LaneTable, intersection)

IsHorizontal(lane) == lane.from[1] = lane.to[1]

IsVertical(lane) == lane.from[2] = lane.to[2]

\* faulty variant of the phase construction: the vertical phase comes first
InitialPhasesVerticalFirst(lane_table, intersection) ==
    LET connected == ConnectedLanesIn(lane_table, intersection)
        horizontal == MapName(SelectSeq(connected, IsHorizontal))
        vertical == MapName(SelectSeq(connected, IsVertical))
    IN IF horizontal # <<>> /\ vertical # <<>>
       THEN << [green_lanes |-> vertical, duration |-> InitialPhaseDuration],
               [green_lanes |-> horizontal, duration |-> InitialPhaseDuration] >>
       ELSE << [green_lanes |-> MapName(connected), duration |-> InitialPhaseDuration] >>

\* the phases built for one intersection by initialize
InitialPhasesIn(lane_table, intersection) ==
    LET connected == ConnectedLanesIn(lane_table, intersection)
        horizontal == MapName(SelectSeq(connected, IsHorizontal))
        vertical == MapName(SelectSeq(connected, IsVertical))
    IN IF horizontal # <<>> /\ vertical # <<>>
       THEN << [green_lanes |-> horizontal, duration |-> InitialPhaseDuration],
               [green_lanes |-> vertical, duration |-> InitialPhaseDuration] >>
       ELSE << [green_lanes |-> MapName(connected), duration |-> InitialPhaseDuration] >>

InitialPhases(intersection) == InitialPhasesIn(LaneTable, intersection)

\* TrafficLightController::initialize(intersections, lanes)
InitializeOn(intersections, lane_table) ==
    LET managed == {i \in Range(intersections) :
                       /\ i.control = "TrafficLight"
                       /\ ConnectedLanesIn(lane_table, i) # <<>>}
        info(id) == CHOOSE i \in managed : i.id = id
    IN [id \in {i.id : i \in managed} |->
           IntersectionControllerNew(info(id),
                                     InitialPhasesIn(lane_table, info(id)),
                                     MapName(ConnectedLanesIn(lane_table, info(id))))]

\* the controller of the program's own intersections and lanes
Initialize == InitializeOn(Intersections, LaneTable)

\* no call of initialize is pending: run_simulation has made its call on
\* clones of its own intersections and lanes (Initialize)
NoGrid == <<>>

\* Lanes of a grid handed to initialize.
MaxLanes == 3

\* the four intersections of the block (0,0)..(1,1)
BlockIds == << <<0, 0>>, <<0, 1>>, <<1, 0>>, <<1, 1>> >>

\* create_lanes: the lanes between the intersections of the block, in the
\* order of the Vec
BlockLanes ==
    << [name |-> "(0,0) -> (0,1)", from |-> <<0, 0>>, to |-> <<0, 1>>, length_meters |-> 300],
       [name |-> "(0,1) -> (0,0)", from |-> <<0, 1>>, to |-> <<0, 0>>, length_meters |-> 300],
       [name |-> "(1,0) -> (1,1)", from |-> <<1, 0>>, to |-> <<1, 1>>, length_meters |-> 150],
       [name |-> "(1,1) -> (1,0)", from |-> <<1, 1>>, to |-> <<1, 0>>, length_meters |-> 150],
       [name |-> "(0,0) -> (1,0)", from |-> <<0, 0>>, to |-> <<1, 0>>, length_meters |-> 300],
       [name |-> "(1,0) -> (0,0)", from |-> <<1, 0>>, to |-> <<0, 0>>, length_meters |-> 300],
       [name |-> "(0,1) -> (1,1)", from |-> <<0, 1>>, to |-> <<1, 1>>, length_meters |-> 400],
       [name |-> "(1,1) -> (0,1)", from |-> <<1, 1>>, to |-> <<0, 1>>, length_meters |-> 400] >>

\* enum IntersectionControl
Controls == {"Normal", "TrafficLight"}

\* the elements of s at the positions in keep, in their order, from position k on
RECURSIVE KeepFrom(_, _, _)
KeepFrom(s, keep, k) ==
    IF k > Len(s) THEN <<>>
    ELSE (IF k \in keep THEN <<s[k]>> ELSE <<>>) \o KeepFrom(s, keep, k + 1)

\* the inputs of initialize: the block's intersections under any control
\* kinds, with any MaxLanes or fewer of the block's lanes
Grids ==
    {[intersections |-> [k \in 1..Len(BlockIds) |->
                            [id |-> BlockIds[k], control |-> control[k]]],
      lanes |-> KeepFrom(BlockLanes, keep, 1)] :
        control \in [1..Len(BlockIds) -> Controls],
        keep \in {chosen \in SUBSET (1..Len(BlockLanes)) : Cardinality(chosen) <= MaxLanes}}

\* TrafficLightController::update_all
UpdateAll(cs) == [id \in DOMAIN cs |-> CtrlUpdate(cs[id])]

\* faulty variant of is_lane_green: the emergency override is not looked at
IsLaneGreenPhaseOnly(cs, intersection_id, lane_name) ==
    IF intersection_id \in DOMAIN cs
    THEN Contains(CurrentPhase(cs[intersection_id]).green_lanes, lane_name)
    ELSE TRUE

\* TrafficLightController::is_lane_green
IsLaneGreen(cs, intersection_id, lane_name) ==
    IF intersection_id \in DOMAIN cs
    THEN LET ctrl == cs[intersection_id] IN
         IF ctrl.emergency_override # NoOverride
         THEN Contains(ctrl.emergency_override[1], lane_name)
         ELSE Contains(CurrentPhase(ctrl).green_lanes, lane_name)
    ELSE TRUE

\* TrafficLightController::set_emergency_override_route
SetEmergencyOverrideRoute(cs, intersection_id, emergency_route) ==
    IF intersection_id \in DOMAIN cs
    THEN [cs EXCEPT ![intersection_id] = CtrlSetEmergencyOverride(@, emergency_route)]
    ELSE cs

\* TrafficLightController::clear_emergency_override
ClearEmergencyOverride(cs, intersection_id) ==
    IF intersection_id \in DOMAIN cs
    THEN [cs EXCEPT ![intersection_id] = CtrlClearEmergencyOverride(@)]
    ELSE cs

\* TrafficLightController::set_phase_duration
SetPhaseDuration(cs, intersection_id, phase_index, new_duration) ==
    IF intersection_id \in DOMAIN cs
    THEN [cs EXCEPT ![intersection_id] = CtrlSetPhaseDuration(@, phase_index, new_duration)]
    ELSE cs

\* TrafficLightController::adjust_phases_based_on_prediction
AdjustPhasesBasedOnPrediction(cs, intersection_id, predicted_data) ==
    IF intersection_id \in DOMAIN cs
    THEN [cs EXCEPT ![intersection_id] =
             CtrlAdjustPhaseDurationsBasedOnPrediction(@, predicted_data)]
    ELSE cs

-----------------------------------------------------------------------------
(* Route generation *)

\* the lane-name sequences of at most n lanes of lane_set leading from `from` to `to`
RECURSIVE PathsFrom(_, _, _, _)
PathsFrom(lane_set, from, to, n) ==
    IF n = 0 THEN {}
    ELSE UNION { IF l.to = to
                 THEN {<<l.name>>}
                 ELSE {<<l.name>> \o p : p \in PathsFrom(lane_set \ {l}, l.to, to, n - 1)}
                 : l \in {x \in lane_set : x.from = from} }

RouteLength(route) == SumSeq([k \in 1..Len(route) |-> LaneInfo(route[k]).length_meters])

\* generate_shortest_lane_route: the minimum-total-length routes (several on a
\* tie); empty when the exit is unreachable
GenerateShortestLaneRoute(filtered_lanes, entry_id, exit_id) ==
    LET paths == PathsFrom(filtered_lanes, entry_id, exit_id, Cardinality(filtered_lanes))
    IN {p \in paths : \A q \in paths : RouteLength(p) <= RouteLength(q)}

-----------------------------------------------------------------------------
(* run_simulation: the snapshot / spawn / publish loop *)

EmptyTrafficData == [lane_occupancy |-> <<>>, vehicle_data |-> <<>>]

\* the lanes spawn_vehicle keeps: no accident, snapshot occupancy at most 0.75
\* (lane_occupancy holds the occupied length; the ratio is taken against
\* length_meters)
FilteredLanes(traffic_data) ==
    {l \in Range(LaneTable) :
        /\ ~lanes[l.name].has_accident
        /\ ~(/\ l.name \in DOMAIN traffic_data.lane_occupancy
             /\ 4 * traffic_data.lane_occupancy[l.name] > 3 * l.length_meters)}

EntryPoints == {i \in Range(Intersections) : i.is_entry}

ExitPoints == {i \in Range(Intersections) : i.is_exit}

\* faulty variant of the id counter: the id is handed out again
NextVehicleIdReused(id) == id

\* the id the next Vehicle::new gets after one was handed out
NextVehicleId(id) == id + 1

\* lanes.lock then intersections.lock: clone both (loop body, first block)
TakeSnapshot ==
    /\ main_pc = "snapshot"
    /\ current_traffic_data' =
           [lane_occupancy |-> [n \in LaneNames |-> lanes[n].current_vehicle_length],
            vehicle_data |-> <<>>]
    /\ main_pc' = "drain"
    /\ UNCHANGED <<lanes, controllers, tasks, next_vehicle_id, produced_ids,
                   active_ids, vehicle_events, historical, last_call, more_vars>>

\* faulty variant of the drain: the vector is cloned and not cleared
DrainEventsNoClear ==
    /\ main_pc = "drain"
    /\ current_traffic_data' = [current_traffic_data EXCEPT !.vehicle_data = vehicle_events]
    /\ main_pc' = "spawn"
    /\ UNCHANGED <<lanes, controllers, tasks, next_vehicle_id, produced_ids,
                   active_ids, vehicle_events, historical, last_call, more_vars>>

\* vehicle_events.lock: clone and clear, then collect_traffic_data
DrainEvents ==
    /\ main_pc = "drain"
    /\ current_traffic_data' = [current_traffic_data EXCEPT !.vehicle_data = vehicle_events]
    /\ vehicle_events' = <<>>
    /\ main_pc' = "spawn"
    /\ UNCHANGED <<lanes, controllers, tasks, next_vehicle_id, produced_ids,
                   active_ids, historical, last_call, more_vars>>

\* a spawned task: the vehicle, its route and its position in simulate_vehicle_journey
TaskNew(vehicle, route) == [vehicle |-> vehicle, route |-> route, pc |-> "admit"]

\* one pass of the spawn loop's body: spawn_vehicle, then the active_ids
\* check and tokio::spawn
SpawnWith(types, max_ids, max_tasks) ==
    /\ main_pc = "spawn"
    /\ \E entry \in EntryPoints, exit \in ExitPoints, vehicle_type \in types :
          IF entry.id = exit.id
          THEN \* spawn_vehicle returns None before Vehicle::new
               UNCHANGED <<tasks, next_vehicle_id, produced_ids, active_ids>>
          ELSE /\ next_vehicle_id <= max_ids
               /\ Len(produced_ids) < max_ids
               /\ LET vehicle == VehicleNew(next_vehicle_id, vehicle_type, entry.id, exit.id)
                      routes == GenerateShortestLaneRoute(
                                    FilteredLanes(current_traffic_data), entry.id, exit.id)
                  IN /\ next_vehicle_id' = NextVehicleId(next_vehicle_id)
                     /\ produced_ids' = Append(produced_ids, vehicle.id)
                     /\ IF routes = {}
                        THEN UNCHANGED <<tasks, active_ids>>
                        ELSE IF vehicle.id \in active_ids
                        THEN UNCHANGED <<tasks, active_ids>>
                        ELSE /\ Len(tasks) < max_tasks
                             /\ active_ids' = active_ids \cup {vehicle.id}
                             /\ \E route \in routes :
                                   tasks' = Append(tasks, TaskNew(vehicle, route))
    /\ UNCHANGED <<lanes, controllers, vehicle_events, main_pc, current_traffic_data,
                   historical, last_call, more_vars>>

\* the spawn step of the engine
SpawnVehicle == SpawnWith(SpawnTypes, MaxIds, MaxTasks)

\* serialize and publish the TrafficUpdate, then sleep 1 s
PublishUpdate ==
    /\ main_pc = "spawn"
    /\ main_pc' = "snapshot"
    /\ current_traffic_data' = EmptyTrafficData
    /\ UNCHANGED <<lanes, controllers, tasks, next_vehicle_id, produced_ids,
                   active_ids, vehicle_events, historical, last_call, more_vars>>

-----------------------------------------------------------------------------
(* simulate_vehicle_journey: one action per critical section that reads or   *)
(* writes mutable shared state.  The reads of has_accident and of the        *)
(* intersection table (never written after start-up), the accident roll and  *)
(* the sleeps are local to the task and belong to the step they follow.      *)

TaskIds == 1..Len(tasks)

CurrentLane(k) == Head(tasks[k].route)

\* VehicleData pushed by the task (waiting_time goes with the clock)
VehicleDataOf(vehicle, current_lane) ==
    [id |-> vehicle.id,
     accident_timestamp |-> vehicle.accident_timestamp,
     severity |-> vehicle.severity,
     current_lane |-> current_lane]

\* a task that returned: its locals are gone
TaskDone(task) == [vehicle |-> [id |-> task.vehicle.id], route |-> <<>>, pc |-> "done"]

\* the vehicle after rng.random_bool(accident_probability) came out true
Crashed(vehicle, crash_severity) ==
    [vehicle EXCEPT !.accident_timestamp = "Some", !.severity = crash_severity]

\* the accident roll: the tasks a task at the roll may become: crashed (it then
\* sleeps severity * 1.5 s before removal) or travelling (it sleeps
\* length / speed)
AccidentRoll(task) ==
    {[task EXCEPT !.vehicle = Crashed(@, crash_severity), !.pc = "crash_wait"]
        : crash_severity \in CrashSeverities}
    \cup {[task EXCEPT !.pc = "travel"]}

\* lanes.lock: lane.add_vehicle; on failure sleep 5 s and retry.  On success
\* the has_accident read (and the accident wait) follow.
AdmitAttempt(k) ==
    /\ tasks[k].pc = "admit"
    /\ tasks[k].route # <<>>
    /\ LET name == CurrentLane(k)
           vehicle == tasks[k].vehicle
       IN IF AddVehicleResult(lanes[name], vehicle)
          THEN /\ lanes' = [lanes EXCEPT ![name] = AddVehicle(@, vehicle)]
               /\ tasks' = [tasks EXCEPT ![k].vehicle.is_in_lane = TRUE,
                                         ![k].pc = "signal"]
          ELSE UNCHANGED <<lanes, tasks>>
    /\ UNCHANGED <<controllers, next_vehicle_id, produced_ids, active_ids,
                   vehicle_events, main_pc, current_traffic_data, historical, last_call,
                   mq, locks, wire_vars>>

\* the admission step of a journey in the engine
AdmitLane(k) ==
    /\ AdmitAttempt(k)
    /\ UNCHANGED arrivals

\* faulty variant of the signal check: an emergency vehicle waits at red too
AfterSignalAllWait(vehicle, intersection, can_move) ==
    IF intersection.control = "TrafficLight"
    THEN IF ~can_move THEN "red_wait" ELSE "roll"
    ELSE "roll"

\* where the task goes after the signal check
AfterSignal(vehicle, intersection, can_move) ==
    IF intersection.control = "TrafficLight"
    THEN IF ~can_move
         THEN IF IsEmergency(vehicle) THEN "override" ELSE "red_wait"
         ELSE "roll"
    ELSE "roll"

\* traffic_controller.lock: is_lane_green.  Green (or no light): on to the
\* accident roll.  Red: an emergency vehicle goes on to install its override,
\* any other sleeps for the remaining phase time and `continue`s the loop.
SignalCheck(k) ==
    /\ tasks[k].pc = "signal"
    /\ LET vehicle == tasks[k].vehicle
           intersection == IntersectionInfo(LaneInfo(CurrentLane(k)).from)
           can_move == IsLaneGreen(controllers, intersection.id, CurrentLane(k))
           next == AfterSignal(vehicle, intersection, can_move)
       IN CASE next = "roll" ->
                 \E task \in AccidentRoll(tasks[k]) : tasks' = [tasks EXCEPT ![k] = task]
            [] next = "override" ->
                 tasks' = [tasks EXCEPT ![k].pc = "override"]
            [] next = "red_wait" ->
                 tasks' = [tasks EXCEPT ![k].pc = "admit"]
    /\ UNCHANGED <<lanes, controllers, next_vehicle_id, produced_ids, active_ids,
                   vehicle_events, main_pc, current_traffic_data, historical, last_call, more_vars>>

\* the lane set an emergency vehicle asks to be green
OverrideRoute(current_lane) == <<current_lane>>

\* traffic_controller.lock: set_emergency_override_route; on to the accident roll
InstallOverride(k) ==
    /\ tasks[k].pc = "override"
    /\ controllers' = SetEmergencyOverrideRoute(controllers,
                          LaneInfo(CurrentLane(k)).from, OverrideRoute(CurrentLane(k)))
    /\ \E task \in AccidentRoll(tasks[k]) : tasks' = [tasks EXCEPT ![k] = task]
    /\ UNCHANGED <<lanes, next_vehicle_id, produced_ids, active_ids,
                   vehicle_events, main_pc, current_traffic_data, historical, last_call, more_vars>>

\* after the crash sleep: lanes.lock: remove the crashed vehicle
CrashRemove(k) ==
    /\ tasks[k].pc = "crash_wait"
    /\ lanes' = [lanes EXCEPT ![CurrentLane(k)] = RemoveVehicle(@, tasks[k].vehicle)]
    /\ tasks' = [tasks EXCEPT ![k].pc = "crash_deactivate"]
    /\ UNCHANGED <<controllers, next_vehicle_id, produced_ids, active_ids,
                   vehicle_events, main_pc, current_traffic_data, historical, last_call, more_vars>>

\* active_ids.lock: remove the id
CrashDeactivate(k) ==
    /\ tasks[k].pc = "crash_deactivate"
    /\ active_ids' = active_ids \ {tasks[k].vehicle.id}
    /\ tasks' = [tasks EXCEPT ![k].pc = "crash_emit"]
    /\ UNCHANGED <<lanes, controllers, next_vehicle_id, produced_ids,
                   vehicle_events, main_pc, current_traffic_data, historical, last_call, more_vars>>

\* vehicle_events.lock: push the crash event; return
CrashEmit(k) ==
    /\ tasks[k].pc = "crash_emit"
    /\ vehicle_events' = Append(vehicle_events,
                                VehicleDataOf(tasks[k].vehicle, CurrentLane(k)))
    /\ tasks' = [tasks EXCEPT ![k] = TaskDone(@)]
    /\ UNCHANGED <<lanes, controllers, next_vehicle_id, produced_ids, active_ids,
                   main_pc, current_traffic_data, historical, last_call, more_vars>>

\* after the travel sleep: lanes.lock: remove_vehicle; route.remove(0)
TraverseRemove(k) ==
    /\ tasks[k].pc = "travel"
    /\ lanes' = [lanes EXCEPT ![CurrentLane(k)] = RemoveVehicle(@, tasks[k].vehicle)]
    /\ tasks' = [tasks EXCEPT ![k].route = Tail(@), ![k].pc = "admit"]
    /\ UNCHANGED <<controllers, next_vehicle_id, produced_ids, active_ids,
                   vehicle_events, main_pc, current_traffic_data, historical, last_call, more_vars>>

\* faulty variant of the arrival exit: the final event is pushed twice
EmitFinalTwice(k) ==
    /\ tasks[k].pc = "admit"
    /\ tasks[k].route = <<>>
    /\ vehicle_events' = Append(Append(vehicle_events, VehicleDataOf(tasks[k].vehicle, "")),
                                VehicleDataOf(tasks[k].vehicle, ""))
    /\ tasks' = [tasks EXCEPT ![k].pc = "deactivate"]
    /\ UNCHANGED <<lanes, controllers, next_vehicle_id, produced_ids, active_ids,
                   main_pc, current_traffic_data, historical, last_call, more_vars>>

\* route exhausted: vehicle_events.lock: push the final event
EmitFinal(k) ==
    /\ tasks[k].pc = "admit"
    /\ tasks[k].route = <<>>
    /\ vehicle_events' = Append(vehicle_events, VehicleDataOf(tasks[k].vehicle, ""))
    /\ tasks' = [tasks EXCEPT ![k].pc = "deactivate"]
    /\ UNCHANGED <<lanes, controllers, next_vehicle_id, produced_ids, active_ids,
                   main_pc, current_traffic_data, historical, last_call, more_vars>>

\* active_ids.lock: remove the id; the task ends
Deactivate(k) ==
    /\ tasks[k].pc = "deactivate"
    /\ active_ids' = active_ids \ {tasks[k].vehicle.id}
    /\ tasks' = [tasks EXCEPT ![k] = TaskDone(@)]
    /\ UNCHANGED <<lanes, controllers, next_vehicle_id, produced_ids,
                   vehicle_events, main_pc, current_traffic_data, historical, last_call, more_vars>>

\* run_update_loop: traffic_controller.lock: update_all, then sleep 1 s
Tick ==
    /\ controllers' = UpdateAll(controllers)
    /\ UNCHANGED <<lanes, tasks, next_vehicle_id, produced_ids, active_ids,
                   vehicle_events, main_pc, current_traffic_data, historical, last_call, more_vars>>

-----------------------------------------------------------------------------
(* HistoricalData *)

\* HistoricalData::new
HistoricalDataNew(capacity) ==
    [capacity |-> capacity, occupancy_history |-> <<>>, waiting_time_history |-> <<>>]

\* VecDeque::pop_front (nothing to pop from an empty deque)
PopFront(deque) == IF deque = <<>> THEN deque ELSE Tail(deque)

\* the body of the update loops: drop the oldest sample when the deque holds
\* exactly `capacity` samples, then push the new one
PushSample(deque, capacity, sample) ==
    Append(IF Len(deque) = capacity THEN PopFront(deque) ELSE deque, sample)

\* entry(int_id).or_insert_with(VecDeque::new) followed by the push, for every
\* key of `samples`
PushSamples(history, capacity, samples) ==
    [id \in (DOMAIN history) \cup (DOMAIN samples) |->
        IF id \in DOMAIN samples
        THEN PushSample(IF id \in DOMAIN history THEN history[id] ELSE <<>>,
                        capacity, samples[id])
        ELSE history[id]]

\* HistoricalData::update_occupancy
UpdateOccupancy(hist, data) ==
    [hist EXCEPT !.occupancy_history =
        PushSamples(@, hist.capacity, data.intersection_congestion)]

\* HistoricalData::update_waiting_time
UpdateWaitingTime(hist, waiting_times) ==
    [hist EXCEPT !.waiting_time_history = PushSamples(@, hist.capacity, waiting_times)]

-----------------------------------------------------------------------------
(* The Analyzer and Controller consumer loops.  A delivery is a tag and a    *)
(* body; a body that is not UTF-8 or not the expected JSON is "invalid".     *)
(* Every publish and every ack may fail, and `?` then ends the closure with  *)
(* the delivery unacknowledged.                                              *)

\* Deliveries the model's broker hands to each consumer.
MaxDeliveries == 2

\* CongestionAlert deliveries the Controller takes.
MaxAlerts == 1

\* congestion values of a TrafficUpdate, as percentages: at the 0.50 alert
\* threshold and above it
UpdateCongestion == {50, 51}

\* the intersections a TrafficUpdate reports on
UpdateIntersections == {"(0,2)", "(1,3)"}

\* the TrafficData of the model's TrafficUpdate deliveries
TrafficUpdates ==
    {[intersection_congestion |-> cong,
      intersection_waiting_time |-> [id \in UpdateIntersections |-> 1],
      vehicle_data |-> <<>>] : cong \in [UpdateIntersections -> UpdateCongestion]}

\* the bodies on traffic_data
AnalyzerBodies ==
    {[valid |-> FALSE]} \cup {[valid |-> TRUE, current_data |-> d] : d \in TrafficUpdates}

\* the bodies on congestion_alerts: CongestionAlert.intersection is an Option
ControllerBodies ==
    {[valid |-> FALSE],
     [valid |-> TRUE, intersection |-> <<>>],
     [valid |-> TRUE, intersection |-> <<"(0,2)">>]}

\* faulty variant of analyze_traffic_data: `>=` for `>`
AnalyzeTrafficDataAtThreshold(data) ==
    {id \in DOMAIN data.intersection_congestion : data.intersection_congestion[id] >= 50}

\* analyze_traffic_data: the intersections whose congestion exceeds 0.50
AnalyzeTrafficData(data) ==
    {id \in DOMAIN data.intersection_congestion : data.intersection_congestion[id] > 50}

\* a consumer waiting on consumer.receiver()
ConsumerNew == [pc |-> "wait", delivery |-> <<>>, progress |-> {}, alerts_left |-> {}]

MqInit ==
    [analyzer |-> ConsumerNew,
     controller |-> ConsumerNew,
     next_tag |-> [c \in {"analyzer", "controller"} |-> 1],
     unacked |-> [c \in {"analyzer", "controller"} |-> {}],
     acked |-> [c \in {"analyzer", "controller"} |-> <<>>],
     published |-> <<>>,
     latest_data |-> <<>>]

\* the broker hands over the next delivery and keeps it as unacknowledged
Deliver(c, body, pc) ==
    [mq EXCEPT ![c] = [pc |-> pc, delivery |-> <<[tag |-> mq.next_tag[c], body |-> body]>>,
                       progress |-> {}, alerts_left |-> {}],
               !.next_tag[c] = @ + 1,
               !.unacked[c] = @ \cup {mq.next_tag[c]}]

\* consumer.ack(delivery) returned Ok
Acked(c) ==
    [mq EXCEPT !.acked[c] = Append(@, [tag |-> mq[c].delivery[1].tag,
                                       body |-> mq[c].delivery[1].body,
                                       progress |-> mq[c].progress]),
               !.unacked[c] = @ \ {mq[c].delivery[1].tag},
               ![c] = ConsumerNew]

\* a publish or an ack returned Err: `?` returns from the closure
Failed(c) == [mq EXCEPT ![c].pc = "failed"]

\* exchange.publish returned Ok: what went out, on which queue, for which delivery
Published(m, queue, tag, body) ==
    [m EXCEPT !.published = Append(@, [queue |-> queue, tag |-> tag, body |-> body])]

\* the CongestionAlert analyze_traffic_data pushes for an intersection
\* (timestamp, message and recommended_action are text around these two)
CongestionAlertOf(data, int_id) ==
    [intersection |-> <<int_id>>, congestion_perc |-> data.intersection_congestion[int_id]]

\* the AccidentInfo pushed for a VehicleData entry with an accident timestamp
AccidentInfoOf(v) ==
    [vehicle_id |-> v.id, accident_timestamp |-> v.accident_timestamp,
     severity |-> v.severity, current_lane |-> v.current_lane]

\* the waiting_time of a VehicleData entry (an entry pushed by the engine's
\* model carries none: its waiting time goes with the clock)
WaitingTimeOf(v) == IF "waiting_time" \in DOMAIN v THEN v.waiting_time ELSE 0

\* (total_delay as f64 / count_delay as f64 * 100.0).round(), the average
\* delay in hundredths of a second; 0 for no entries
AverageDelayHundredths(vehicle_data) ==
    LET total_delay == SumSeq([k \in 1..Len(vehicle_data) |-> WaitingTimeOf(vehicle_data[k])])
        count_delay == Len(vehicle_data)
    IN IF count_delay > 0 THEN RoundHalfAway(total_delay * 100, count_delay) ELSE 0

\* faulty variant of analyze_traffic_events: every entry is listed as an accident
TrafficEventOfEveryEntry(data) ==
    LET accident_list == [k \in 1..Len(data.vehicle_data) |->
                             AccidentInfoOf(data.vehicle_data[k])]
    IN [average_vehicle_delay |-> AverageDelayHundredths(data.vehicle_data),
        total_accidents |-> Len(accident_list),
        accident_details |-> accident_list]

\* analyze_traffic_events (the timestamp goes with the clock)
TrafficEventOf(data) ==
    LET with_accident == SelectSeq(data.vehicle_data,
                                   LAMBDA v : v.accident_timestamp # "None")
        accident_list == [k \in 1..Len(with_accident) |-> AccidentInfoOf(with_accident[k])]
    IN [average_vehicle_delay |-> AverageDelayHundredths(data.vehicle_data),
        total_accidents |-> Len(accident_list),
        accident_details |-> accident_list]

\* add_seconds_green of the Controller's LightAdjustment
AddSecondsGreen == 5

\* faulty variant of the LightAdjustment: the intersection is not carried over
LightAdjustmentUnknown(int_id) ==
    [intersection_id |-> "unknown", add_seconds_green |-> AddSecondsGreen]

\* the LightAdjustment built for alert.intersection
LightAdjustmentOf(int_id) ==
    [intersection_id |-> int_id, add_seconds_green |-> AddSecondsGreen]

\* faulty variant of the Analyzer's loop body: the ack comes first
AnalyzerAckFirst(body) == "ack"

\* faulty variant of the Analyzer's loop body: a body that does not parse ends
\* the loop
AnalyzerStopOnInvalid(body) == IF body.valid THEN "history" ELSE "failed"

\* where the Analyzer goes with a delivery: the two `if let Ok` of the parse
AnalyzerAfterParse(body) == IF body.valid THEN "history" ELSE "ack"

\* where the Controller goes with a delivery: the parse and alert.intersection
ControllerAfterParse(body) ==
    IF body.valid /\ body.intersection # <<>> THEN "adjust" ELSE "ack"

\* consumer.receiver(): the next delivery, one of `bodies`, while fewer than
\* max_deliveries were taken
AnalyzerReceiveFrom(bodies, max_deliveries) ==
    /\ mq.analyzer.pc = "wait"
    /\ mq.next_tag["analyzer"] <= max_deliveries
    /\ \E body \in bodies :
          mq' = Deliver("analyzer", body, AnalyzerAfterParse(body))
    /\ UNCHANGED <<engine_vars, controllers, historical, last_call, arrivals, locks, wire_vars>>

AnalyzerReceive == AnalyzerReceiveFrom(AnalyzerBodies, MaxDeliveries)

\* historical.lock: update_occupancy, update_waiting_time
AnalyzerUpdateHistory ==
    /\ mq.analyzer.pc = "history"
    /\ LET data == mq.analyzer.delivery[1].body.current_data
       IN historical' = UpdateWaitingTime(UpdateOccupancy(historical, data),
                                          data.intersection_waiting_time)
    /\ mq' = [mq EXCEPT !.analyzer.pc = "latest", !.analyzer.progress = @ \cup {"history"}]
    /\ UNCHANGED <<engine_vars, controllers, last_call, arrivals, locks, wire_vars>>

\* latest_data.lock: store the observation; then analyze_traffic_data
AnalyzerStoreLatest ==
    /\ mq.analyzer.pc = "latest"
    /\ LET data == mq.analyzer.delivery[1].body.current_data
           alerts == AnalyzeTrafficData(data)
       IN mq' = [mq EXCEPT !.latest_data = <<data>>,
                           !.analyzer.progress =
                               @ \cup {"latest"} \cup (IF alerts = {} THEN {"alerts"} ELSE {}),
                           !.analyzer.alerts_left = alerts,
                           !.analyzer.pc = IF alerts = {} THEN "event" ELSE "alerts"]
    /\ UNCHANGED <<engine_vars, controllers, historical, last_call, arrivals, locks, wire_vars>>

\* one pass of `for alert in &alerts`: publish to congestion_alerts
AnalyzerPublishAlert ==
    /\ mq.analyzer.pc = "alerts"
    /\ \/ \E int_id \in mq.analyzer.alerts_left :
             LET left == mq.analyzer.alerts_left \ {int_id}
             IN mq' = Published([mq EXCEPT !.analyzer.alerts_left = left,
                                           !.analyzer.progress =
                                               @ \cup (IF left = {} THEN {"alerts"} ELSE {}),
                                           !.analyzer.pc = IF left = {} THEN "event" ELSE "alerts"],
                                "congestion_alerts", mq.analyzer.delivery[1].tag,
                                CongestionAlertOf(mq.analyzer.delivery[1].body.current_data,
                                                  int_id))
       \/ mq' = Failed("analyzer")
    /\ UNCHANGED <<engine_vars, controllers, historical, last_call, arrivals, locks, wire_vars>>

\* analyze_traffic_events, publish to traffic_events
AnalyzerPublishEvent ==
    /\ mq.analyzer.pc = "event"
    /\ \/ mq' = Published([mq EXCEPT !.analyzer.progress = @ \cup {"event"},
                                     !.analyzer.pc = "ack"],
                          "traffic_events", mq.analyzer.delivery[1].tag,
                          TrafficEventOf(mq.analyzer.delivery[1].body.current_data))
       \/ mq' = Failed("analyzer")
    /\ UNCHANGED <<engine_vars, controllers, historical, last_call, arrivals, locks, wire_vars>>

\* consumer.ack(delivery)?
AnalyzerAck ==
    /\ mq.analyzer.pc = "ack"
    /\ \/ mq' = Acked("analyzer")
       \/ mq' = Failed("analyzer")
    /\ UNCHANGED <<engine_vars, controllers, historical, last_call, arrivals, locks, wire_vars>>

ControllerReceive ==
    /\ mq.controller.pc = "wait"
    /\ mq.next_tag["controller"] <= MaxAlerts
    /\ \E body \in ControllerBodies :
          mq' = Deliver("controller", body, ControllerAfterParse(body))
    /\ UNCHANGED <<engine_vars, controllers, historical, last_call, arrivals, locks, wire_vars>>

\* build the LightAdjustment and publish it to light_adjustments
ControllerPublishAdjustment ==
    /\ mq.controller.pc = "adjust"
    /\ \/ mq' = Published([mq EXCEPT !.controller.progress = @ \cup {"adjust"},
                                     !.controller.pc = "ack"],
                          "light_adjustments", mq.controller.delivery[1].tag,
                          LightAdjustmentOf(mq.controller.delivery[1].body.intersection[1]))
       \/ mq' = Failed("controller")
    /\ UNCHANGED <<engine_vars, controllers, historical, last_call, arrivals, locks, wire_vars>>

\* consumer.ack(delivery)?
ControllerAck ==
    /\ mq.controller.pc = "ack"
    /\ \/ mq' = Acked("controller")
       \/ mq' = Failed("controller")
    /\ UNCHANGED <<engine_vars, controllers, historical, last_call, arrivals, locks, wire_vars>>

\* Deliveries the Analyzer takes when the updates carry vehicle events.
EventDeliveries == 1

\* the VehicleData entries of the updates: waited or not, crashed or not
EventVehicles ==
    {[id |-> 1, waiting_time |-> waiting_time, accident_timestamp |-> accident_timestamp,
      severity |-> IF accident_timestamp = "None" THEN 0 ELSE 2,
      current_lane |-> "(0,2) -> (0,3)"] :
        waiting_time \in {0, 1}, accident_timestamp \in {"None", "Some"}}

\* the vehicle_data of an update: none, or up to three entries
EventVehicleData == UNION {[1..n -> EventVehicles] : n \in 0..3}

\* the TrafficData of the updates that carry vehicle events: no intersection
\* congested, or one
EventUpdates ==
    {[intersection_congestion |-> [id \in UpdateIntersections |->
                                      IF id = "(0,2)" THEN cong ELSE 50],
      intersection_waiting_time |-> [id \in UpdateIntersections |-> 1],
      vehicle_data |-> vehicle_data] :
        cong \in UpdateCongestion, vehicle_data \in EventVehicleData}

\* the bodies on traffic_data
EventBodies ==
    {[valid |-> FALSE]} \cup {[valid |-> TRUE, current_data |-> d] : d \in EventUpdates}

EventReceive == AnalyzerReceiveFrom(EventBodies, EventDeliveries)

-----------------------------------------------------------------------------
(* The lock skeleton of the engine's tasks: for each task the order in which *)
(* it locks and unlocks the five Mutexes and where it awaits a sleep.  A     *)
(* step is <<from, op, lock, to>>; the data that picks a branch is left out, *)
(* so every branch is open.  A guard is dropped at the end of its block, and *)
(* two guards of one block in the reverse order of their declaration.        *)

\* Vehicle tasks of the lock skeleton.
LockVehicles == 1

\* intersections, lanes, traffic_controller, active_ids, vehicle_events
Mutexes == {"intersections", "lanes", "controller", "active_ids", "vehicle_events"}

Step(from, op, lock, to) == [from |-> from, op |-> op, lock |-> lock, to |-> to]

\* run_simulation
MainProgram ==
    { \* initialize the controller: intersections.lock, lanes.lock
      Step("start", "lock", "intersections", "init1"),
      Step("init1", "lock", "lanes", "init2"),
      Step("init2", "unlock", "lanes", "init3"),
      Step("init3", "unlock", "intersections", "loop"),
      \* the snapshot block: lanes.lock, intersections.lock
      Step("loop", "lock", "lanes", "snap1"),
      Step("snap1", "lock", "intersections", "snap2"),
      Step("snap2", "unlock", "intersections", "snap3"),
      Step("snap3", "unlock", "lanes", "drain"),
      \* vehicle_events.lock: clone and clear
      Step("drain", "lock", "vehicle_events", "drain1"),
      Step("drain1", "unlock", "vehicle_events", "spawn"),
      \* spawn_vehicle: intersections.lock, lanes.lock
      Step("spawn", "lock", "intersections", "spawn1"),
      Step("spawn1", "lock", "lanes", "spawn2"),
      \* return None before Vehicle::new
      Step("spawn2", "unlock", "lanes", "none1"),
      Step("none1", "unlock", "intersections", "spawn"),
      \* drop(intersections_guard); the filter; the route; return
      Step("spawn2", "unlock", "intersections", "spawn3"),
      Step("spawn3", "unlock", "lanes", "spawned"),
      Step("spawned", "go", "", "spawn"),
      \* active_ids.lock: contains / insert; tokio::spawn
      Step("spawned", "lock", "active_ids", "active1"),
      Step("active1", "unlock", "active_ids", "spawn"),
      \* publish, then sleep 1 s
      Step("spawn", "go", "", "publish_sleep"),
      Step("publish_sleep", "sleep", "", "loop") }

\* faulty variant of the update loop: the sleep is awaited inside the block
LightProgramSleepInBlock ==
    { Step("tick", "lock", "controller", "tick_sleep"),
      Step("tick_sleep", "sleep", "", "tick1"),
      Step("tick1", "unlock", "controller", "tick") }

\* TrafficLightController::run_update_loop
LightProgram ==
    { Step("tick", "lock", "controller", "tick1"),
      Step("tick1", "unlock", "controller", "tick_sleep"),
      Step("tick_sleep", "sleep", "", "tick") }

\* simulate_vehicle_journey
VehicleProgram ==
    { \* lanes.lock: add_vehicle
      Step("admit", "lock", "lanes", "admit1"),
      Step("admit1", "unlock", "lanes", "admitted"),
      Step("admitted", "go", "", "retry_sleep"),
      Step("retry_sleep", "sleep", "", "admit"),
      \* lanes.lock: has_accident
      Step("admitted", "lock", "lanes", "accident1"),
      Step("accident1", "unlock", "lanes", "accident2"),
      Step("accident2", "go", "", "accident_sleep"),
      Step("accident_sleep", "sleep", "", "lookup"),
      Step("accident2", "go", "", "lookup"),
      \* intersections.lock: find the origin intersection
      Step("lookup", "lock", "intersections", "lookup1"),
      Step("lookup1", "unlock", "intersections", "signal"),
      Step("signal", "go", "", "roll"),
      \* traffic_controller.lock: is_lane_green
      Step("signal", "lock", "controller", "signal1"),
      Step("signal1", "unlock", "controller", "signalled"),
      Step("signalled", "go", "", "roll"),
      \* traffic_controller.lock: set_emergency_override_route
      Step("signalled", "lock", "controller", "override1"),
      Step("override1", "unlock", "controller", "roll"),
      \* traffic_controller.lock: remaining phase time; sleep; continue
      Step("signalled", "lock", "controller", "red1"),
      Step("red1", "unlock", "controller", "red_sleep"),
      Step("red_sleep", "sleep", "", "admit"),
      \* the crash: sleep, then lanes, active_ids, vehicle_events; return
      Step("roll", "go", "", "crash_sleep"),
      Step("crash_sleep", "sleep", "", "crash"),
      Step("crash", "lock", "lanes", "crash1"),
      Step("crash1", "unlock", "lanes", "crash2"),
      Step("crash2", "lock", "active_ids", "crash3"),
      Step("crash3", "unlock", "active_ids", "crash4"),
      Step("crash4", "lock", "vehicle_events", "crash5"),
      Step("crash5", "unlock", "vehicle_events", "end"),
      \* the traversal: sleep, then lanes.lock: remove_vehicle
      Step("roll", "go", "", "travel_sleep"),
      Step("travel_sleep", "sleep", "", "travelled"),
      Step("travelled", "lock", "lanes", "travelled1"),
      Step("travelled1", "unlock", "lanes", "admit"),
      \* the route is exhausted: vehicle_events, then active_ids
      Step("admit", "lock", "vehicle_events", "final1"),
      Step("final1", "unlock", "vehicle_events", "final2"),
      Step("final2", "lock", "active_ids", "final3"),
      Step("final3", "unlock", "active_ids", "end") }

\* a task is <<kind, number>>
LockTasks == {<<"main", 0>>, <<"light", 0>>} \cup {<<"vehicle", k>> : k \in 1..LockVehicles}

\* faulty variant of the programs: a journey looks its intersection up inside
\* the block that holds the lanes guard
ProgramLookupInBlock(task) ==
    CASE task[1] = "main" -> MainProgram
      [] task[1] = "light" -> LightProgram
      [] OTHER -> VehicleProgram \cup
                    { Step("accident1", "lock", "intersections", "nested1"),
                      Step("nested1", "unlock", "intersections", "accident1") }

Program(task) ==
    CASE task[1] = "main" -> MainProgram
      [] task[1] = "light" -> LightProgram
      [] OTHER -> VehicleProgram

StartOf(task) ==
    CASE task[1] = "main" -> "start"
      [] task[1] = "light" -> "tick"
      [] OTHER -> "admit"

LocksInit ==
    [pc |-> [task \in LockTasks |-> StartOf(task)],
     held |-> [task \in LockTasks |-> <<>>]]

\* the steps open to the task where it stands
StepsAt(task, op) ==
    {st \in Program(task) : st.from = locks.pc[task] /\ st.op = op}

\* the task stands at an await of a sleep
Suspended(task) == StepsAt(task, "sleep") # {}

\* Mutex::lock returns once nobody holds the Mutex
Acquire(task) ==
    /\ \E st \in StepsAt(task, "lock") :
          /\ \A other \in LockTasks : ~Contains(locks.held[other], st.lock)
          /\ locks' = [locks EXCEPT !.pc[task] = st.to,
                                    !.held[task] = Append(@, st.lock)]
    /\ UNCHANGED <<engine_vars, controllers, historical, last_call, arrivals, mq, wire_vars>>

\* the guard goes out of scope
Release(task) ==
    /\ \E st \in StepsAt(task, "unlock") :
          locks' = [locks EXCEPT !.pc[task] = st.to,
                                 !.held[task] = SelectSeq(@, LAMBDA m : m # st.lock)]
    /\ UNCHANGED <<engine_vars, controllers, historical, last_call, arrivals, mq, wire_vars>>

\* code between two critical sections
Proceed(task) ==
    /\ \E st \in StepsAt(task, "go") : locks' = [locks EXCEPT !.pc[task] = st.to]
    /\ UNCHANGED <<engine_vars, controllers, historical, last_call, arrivals, mq, wire_vars>>

\* the sleep is over
Resume(task) ==
    /\ \E st \in StepsAt(task, "sleep") : locks' = [locks EXCEPT !.pc[task] = st.to]
    /\ UNCHANGED <<engine_vars, controllers, historical, last_call, arrivals, mq, wire_vars>>

-----------------------------------------------------------------------------
(* The four queues on the broker.  Every publisher publishes through the    *)
(* default direct exchange with the queue's name as routing key, and every  *)
(* consumer declares the queue of that name and consumes from it: the       *)
(* broker hands each message of a queue to one of the queue's consumers.    *)

\* Messages published in a run.
MaxMessages == 3

\* QUEUE_TRAFFIC_DATA, QUEUE_CONGESTION_ALERTS, QUEUE_TRAFFIC_EVENTS,
\* QUEUE_LIGHT_ADJUSTMENTS
QueueNames == {"traffic_data", "congestion_alerts", "traffic_events", "light_adjustments"}

ConsumerNames == {"analyzer", "controller", "monitor"}

\* who has called consume on the queue
Subscribers(queue) ==
    CASE queue = "traffic_data" -> {"analyzer", "monitor"}
      [] queue = "congestion_alerts" -> {"controller", "monitor"}
      [] queue = "traffic_events" -> {"monitor"}
      [] queue = "light_adjustments" -> {"monitor"}

\* the consumer a queue exists for
FunctionalConsumers(queue) == Subscribers(queue) \ {"monitor"}

BrokerInit ==
    [published |-> [q \in QueueNames |-> 0],
     queues |-> [q \in QueueNames |-> <<>>],
     received |-> [c \in ConsumerNames |-> {}]]

BrokerTotal == SumSeq([k \in 1..4 |->
                   broker.published[<<"traffic_data", "congestion_alerts",
                                      "traffic_events", "light_adjustments">>[k]]])

\* exchange.publish(Publish::new(payload, queue)): the simulation on
\* traffic_data, the analyzer on congestion_alerts and traffic_events, the
\* controller and the operator's adjust_traffic_light_phase on light_adjustments
BrokerPublish(queue) ==
    /\ BrokerTotal < MaxMessages
    /\ broker' = [broker EXCEPT !.published[queue] = @ + 1,
                                !.queues[queue] = Append(@, broker.published[queue] + 1)]
    /\ UNCHANGED <<engine_vars, controllers, historical, last_call, arrivals, mq, locks, rush, grid>>

\* the next message of the queue goes to the consumer and to nobody else
Consume(queue, consumer) ==
    /\ consumer \in Subscribers(queue)
    /\ broker.queues[queue] # <<>>
    /\ broker' = [broker EXCEPT
                      !.queues[queue] = Tail(@),
                      !.received[consumer] = @ \cup {<<queue, Head(broker.queues[queue])>>}]
    /\ UNCHANGED <<engine_vars, controllers, historical, last_call, arrivals, mq, locks, rush, grid>>

\* start_analyzer_rabbitmq: ConsumerMessage::Delivery on traffic_data
AnalyzerConsume == Consume("traffic_data", "analyzer")

\* start_traffic_controller_rabbitmq: ConsumerMessage::Delivery on congestion_alerts
ControllerConsume == Consume("congestion_alerts", "controller")

\* listen_congestion_alerts, listen_light_adjustments, listen_traffic_data,
\* listen_traffic_event: log the record, ack
MonitorListen(queue) == Consume(queue, "monitor")

-----------------------------------------------------------------------------
(* simulate_rush_hour, and the clock readings of run_simulation that feed it *)

\* Latest second at which run_simulation starts.
MaxStart == 2

\* Seconds a run lasts.
MaxElapsed == 85

\* Seconds between two readings of the clock at the loop head.
MaxStep == 2

\* cycle_duration
CycleDuration == 40

\* the turning point of the cycle (`cycle_time <= 20`, `/ 20.0`)
HalfCycle == 20

\* faulty variant of the rounding: `as usize` alone, which truncates
RoundTruncated(num, den) == num \div den

\* spawn_count before rounding, in twentieths: 2.0 + ratio * 3.0 with ratio =
\* cycle_time / 20.0, or 5.0 - ratio * 3.0 with ratio = (cycle_time - 20) / 20.0.
\* The f64 error of these expressions is far below the distance of any
\* non-tie value to a half, and the ties (3.5) are exact in f64.
SpawnTwentieths(cycle_time) ==
    IF cycle_time <= HalfCycle
    THEN 2 * HalfCycle + cycle_time * 3
    ELSE 5 * HalfCycle - (cycle_time - HalfCycle) * 3

\* the rounding step of simulate_rush_hour
SpawnRound(num, den) == RoundHalfAway(num, den)

\* simulate_rush_hour
SimulateRushHour(simulation_start, current_time) ==
    LET elapsed == current_time - simulation_start
        cycle_time == elapsed % CycleDuration
    IN SpawnRound(SpawnTwentieths(cycle_time), HalfCycle)

\* run_simulation before its loop: simulation_start = current_timestamp()
RushNew(simulation_start) ==
    [simulation_start |-> simulation_start,
     current_time |-> simulation_start,
     spawn_count |-> <<>>]

\* the loop head: current_timestamp(), simulate_rush_hour
ReadClock ==
    /\ \E step \in 0..MaxStep :
          LET now == rush.current_time + step IN
          /\ now - rush.simulation_start <= MaxElapsed
          /\ rush' = [rush EXCEPT !.current_time = now,
                                  !.spawn_count = <<SimulateRushHour(rush.simulation_start, now)>>]
    /\ UNCHANGED <<engine_vars, controllers, historical, last_call, arrivals, mq, locks, broker, grid>>

-----------------------------------------------------------------------------
(* The engine: run_simulation with its vehicle tasks and the light loop *)

InitEngine ==
    /\ lanes = CreateLanes
    /\ tasks = <<>>
    /\ next_vehicle_id = 1
    /\ produced_ids = <<>>
    /\ active_ids = {}
    /\ vehicle_events = <<>>
    /\ main_pc = "snapshot"
    /\ current_traffic_data = EmptyTrafficData
    /\ last_call = "none"
    /\ arrivals = <<>>
    /\ mq = MqInit
    /\ locks = LocksInit
    /\ broker = BrokerInit

InitWorld ==
    /\ InitEngine
    /\ controllers = Initialize
    /\ grid = NoGrid

Init ==
    /\ InitWorld
    /\ historical = HistoricalDataNew(AnalyzerCapacity)
    /\ rush = RushNew(0)

Next ==
    \/ TakeSnapshot
    \/ DrainEvents
    \/ SpawnVehicle
    \/ PublishUpdate
    \/ Tick
    \/ \E k \in TaskIds : AdmitLane(k)
    \/ \E k \in TaskIds : SignalCheck(k)
    \/ \E k \in TaskIds : InstallOverride(k)
    \/ \E k \in TaskIds : CrashRemove(k)
    \/ \E k \in TaskIds : CrashDeactivate(k)
    \/ \E k \in TaskIds : CrashEmit(k)
    \/ \E k \in TaskIds : TraverseRemove(k)
    \/ \E k \in TaskIds : EmitFinal(k)
    \/ \E k \in TaskIds : Deactivate(k)

Spec == Init /\ [][Next]_vars

\* the tokio runtime keeps polling every task that can go on: the main loop,
\* the controller's update loop and each vehicle journey
Fairness ==
    /\ WF_vars(TakeSnapshot)
    /\ WF_vars(DrainEvents)
    /\ WF_vars(SpawnVehicle)
    /\ WF_vars(PublishUpdate)
    /\ WF_vars(Tick)
    /\ \A k \in 1..MaxTasks :
          /\ WF_vars(k \in TaskIds /\ AdmitLane(k))
          /\ WF_vars(k \in TaskIds /\ SignalCheck(k))
          /\ WF_vars(k \in TaskIds /\ InstallOverride(k))
          /\ WF_vars(k \in TaskIds /\ CrashRemove(k))
          /\ WF_vars(k \in TaskIds /\ CrashDeactivate(k))
          /\ WF_vars(k \in TaskIds /\ CrashEmit(k))
          /\ WF_vars(k \in TaskIds /\ TraverseRemove(k))
          /\ WF_vars(k \in TaskIds /\ EmitFinal(k))
          /\ WF_vars(k \in TaskIds /\ Deactivate(k))

SpecFair == Spec /\ Fairness

-----------------------------------------------------------------------------
(* The spawn loop with two journeys at a time within one phase of the       *)
(* lights, heavy vehicles included: a journey started earlier in the loop   *)
(* runs while the loop goes on spawning from the same snapshot.             *)

\* journeys the loop may start, and ids it may hand out
PairTasks == 2

PairIds == 2

\* the vehicle types drawn: one that half fills a lane, one that fills it
PairTypes == {"Car", "Truck"}

PairSpawn == SpawnWith(PairTypes, PairIds, PairTasks)

NextPair ==
    \/ TakeSnapshot
    \/ DrainEvents
    \/ PairSpawn
    \/ PublishUpdate
    \/ \E k \in TaskIds : AdmitLane(k)
    \/ \E k \in TaskIds : SignalCheck(k)
    \/ \E k \in TaskIds : CrashRemove(k)
    \/ \E k \in TaskIds : CrashDeactivate(k)
    \/ \E k \in TaskIds : CrashEmit(k)
    \/ \E k \in TaskIds : TraverseRemove(k)
    \/ \E k \in TaskIds : EmitFinal(k)
    \/ \E k \in TaskIds : Deactivate(k)

SpecPair == Init /\ [][NextPair]_vars

-----------------------------------------------------------------------------
(* One spawn round: the journeys run_simulation has started on the same     *)
(* route before any of them was scheduled, running within one phase of the  *)
(* lights (the entry lane stays green).  `arrivals` records the order of    *)
(* the journeys' first admission attempts.                                  *)

\* journeys started in the round
FleetSize == 3

\* the journeys tokio::spawn has started: ids in spawn order, any types, each
\* on a route spawn_vehicle computes for its entry and exit
FleetTasks ==
    {fleet \in [1..FleetSize -> [vehicle : {VehicleNew(id, vehicle_type, entry.id, exit.id) :
                                              id \in 1..FleetSize, vehicle_type \in SpawnTypes,
                                              entry \in EntryPoints, exit \in ExitPoints},
                                 route : UNION {GenerateShortestLaneRoute(
                                                    Range(LaneTable), entry.id, exit.id) :
                                                entry \in EntryPoints, exit \in ExitPoints},
                                 pc : {"admit"}]] :
        \A k \in 1..FleetSize :
            /\ fleet[k].vehicle.id = k
            /\ fleet[k].vehicle.entry_point # fleet[k].vehicle.exit_point
            /\ fleet[k].route \in GenerateShortestLaneRoute(
                                      Range(LaneTable), fleet[k].vehicle.entry_point,
                                      fleet[k].vehicle.exit_point)}

InitFleet ==
    /\ lanes = CreateLanes
    /\ controllers = Initialize
    /\ tasks \in FleetTasks
    /\ next_vehicle_id = FleetSize + 1
    /\ produced_ids = [k \in 1..FleetSize |-> k]
    /\ active_ids = 1..FleetSize
    /\ vehicle_events = <<>>
    /\ main_pc = "spawn"
    /\ current_traffic_data =
           [lane_occupancy |-> [n \in LaneNames |-> 0], vehicle_data |-> <<>>]
    /\ last_call = "none"
    /\ arrivals = <<>>
    /\ mq = MqInit
    /\ locks = LocksInit
    /\ broker = BrokerInit
    /\ rush = RushNew(0)
    /\ grid = NoGrid
    /\ historical = HistoricalDataNew(AnalyzerCapacity)

\* the admission step of a journey, its first attempt noted
FleetAdmit(k) ==
    /\ AdmitAttempt(k)
    /\ arrivals' = IF Contains(arrivals, tasks[k].vehicle.id)
                   THEN arrivals
                   ELSE Append(arrivals, tasks[k].vehicle.id)

NextFleet ==
    \/ \E k \in TaskIds : FleetAdmit(k)
    \/ \E k \in TaskIds : SignalCheck(k)
    \/ \E k \in TaskIds : CrashRemove(k)
    \/ \E k \in TaskIds : CrashDeactivate(k)
    \/ \E k \in TaskIds : CrashEmit(k)
    \/ \E k \in TaskIds : TraverseRemove(k)
    \/ \E k \in TaskIds : EmitFinal(k)
    \/ \E k \in TaskIds : Deactivate(k)

SpecFleet == InitFleet /\ [][NextFleet]_vars

-----------------------------------------------------------------------------
(* The controller under an arbitrary client: any sequence of calls of the    *)
(* public methods of TrafficLightController, on managed and unmanaged        *)
(* intersections alike.                                                      *)

\* phase_index arguments: the two valid indexes of a two-phase controller and
\* one past the end
PhaseIndexes == 0..2

\* predicted congestion values, as percentages: at the 0.8 threshold and above it
CongestionSamples == {80, 81}

\* the predicted_data maps: any set of lanes, each with a congestion value
PredictedData == UNION {[keys -> CongestionSamples] : keys \in SUBSET LaneNames}

\* the emergency_route arguments: the empty Vec and each single lane
EmergencyRoutes == {<<>>} \cup {<<n>> : n \in LaneNames}

CallUpdateAll ==
    /\ controllers' = UpdateAll(controllers)
    /\ last_call' = "update_all"
    /\ UNCHANGED <<engine_vars, historical, more_vars>>

CallSetPhaseDuration ==
    /\ \E id \in IntersectionIds, phase_index \in PhaseIndexes,
          new_duration \in 0..MaxDuration :
          controllers' = SetPhaseDuration(controllers, id, phase_index, new_duration)
    /\ last_call' = "set_phase_duration"
    /\ UNCHANGED <<engine_vars, historical, more_vars>>

CallAdjustPhasesBasedOnPrediction ==
    /\ \E id \in IntersectionIds, predicted_data \in PredictedData :
          controllers' = AdjustPhasesBasedOnPrediction(controllers, id, predicted_data)
    /\ last_call' = "adjust_phases_based_on_prediction"
    /\ UNCHANGED <<engine_vars, historical, more_vars>>

CallSetEmergencyOverrideRoute ==
    /\ \E id \in IntersectionIds, emergency_route \in EmergencyRoutes :
          controllers' = SetEmergencyOverrideRoute(controllers, id, emergency_route)
    /\ last_call' = "set_emergency_override_route"
    /\ UNCHANGED <<engine_vars, historical, more_vars>>

CallClearEmergencyOverride ==
    /\ \E id \in IntersectionIds :
          controllers' = ClearEmergencyOverride(controllers, id)
    /\ last_call' = "clear_emergency_override"
    /\ UNCHANGED <<engine_vars, historical, more_vars>>

NextCtl ==
    \/ CallUpdateAll
    \/ CallSetPhaseDuration
    \/ CallAdjustPhasesBasedOnPrediction
    \/ CallSetEmergencyOverrideRoute
    \/ CallClearEmergencyOverride

SpecCtl == Init /\ [][NextCtl]_vars

-----------------------------------------------------------------------------
(* HistoricalData under an arbitrary client: any capacity, any sequence of   *)
(* update_occupancy / update_waiting_time calls.                             *)

\* the intersection keys of the samples
HistoryKeys == {"(0,2)", "(1,3)"}

\* the sample values
SampleValues == {1, 2}

\* the maps a call may carry: a value for each key of a non-empty key set
SampleMaps == UNION {[keys -> SampleValues] : keys \in (SUBSET HistoryKeys) \ {{}}}

\* the model stops appending to a deque of MaxSamples samples
BelowCap(history, samples) ==
    \A id \in DOMAIN samples : id \in DOMAIN history => Len(history[id]) < MaxSamples

InitHist ==
    /\ InitWorld
    /\ rush = RushNew(0)
    /\ \E capacity \in 0..MaxCapacity : historical = HistoricalDataNew(capacity)

CallUpdateOccupancy ==
    /\ \E samples \in SampleMaps :
          /\ BelowCap(historical.occupancy_history, samples)
          /\ historical' = UpdateOccupancy(historical, [intersection_congestion |-> samples])
    /\ UNCHANGED <<engine_vars, controllers, last_call, more_vars>>

CallUpdateWaitingTime ==
    /\ \E samples \in SampleMaps :
          /\ BelowCap(historical.waiting_time_history, samples)
          /\ historical' = UpdateWaitingTime(historical, samples)
    /\ UNCHANGED <<engine_vars, controllers, last_call, more_vars>>

NextHist ==
    \/ CallUpdateOccupancy
    \/ CallUpdateWaitingTime

SpecHist == InitHist /\ [][NextHist]_vars

-----------------------------------------------------------------------------
(* The two consumers against a broker that delivers any bodies *)

NextMq ==
    \/ AnalyzerReceive
    \/ AnalyzerUpdateHistory
    \/ AnalyzerStoreLatest
    \/ AnalyzerPublishAlert
    \/ AnalyzerPublishEvent
    \/ AnalyzerAck
    \/ ControllerReceive
    \/ ControllerPublishAdjustment
    \/ ControllerAck

SpecMq == Init /\ [][NextMq]_vars

\* the Analyzer's loop on updates that carry vehicle events
NextEvent ==
    \/ EventReceive
    \/ AnalyzerUpdateHistory
    \/ AnalyzerStoreLatest
    \/ AnalyzerPublishAlert
    \/ AnalyzerPublishEvent
    \/ AnalyzerAck

SpecEvent == Init /\ [][NextEvent]_vars

-----------------------------------------------------------------------------
(* The lock skeleton: run_simulation, the light loop and the vehicle tasks *)

NextLocks ==
    \/ \E task \in LockTasks : Acquire(task)
    \/ \E task \in LockTasks : Release(task)
    \/ \E task \in LockTasks : Proceed(task)
    \/ \E task \in LockTasks : Resume(task)

SpecLocks == Init /\ [][NextLocks]_vars

-----------------------------------------------------------------------------
(* The broker with its publishers and the consumers of the four queues *)

NextBroker ==
    \/ \E queue \in QueueNames : BrokerPublish(queue)
    \/ AnalyzerConsume
    \/ ControllerConsume
    \/ \E queue \in QueueNames : MonitorListen(queue)

SpecBroker == Init /\ [][NextBroker]_vars

\* every consumer loop blocks on its receiver and takes what is delivered;
\* publishers are under no obligation to publish
SpecBrokerFair ==
    /\ Init
    /\ [][NextBroker]_vars
    /\ WF_vars(AnalyzerConsume)
    /\ WF_vars(ControllerConsume)
    /\ \A queue \in QueueNames : WF_vars(MonitorListen(queue))

-----------------------------------------------------------------------------
(* The spawn count over a run of run_simulation *)

InitRush ==
    /\ InitWorld
    /\ historical = HistoricalDataNew(AnalyzerCapacity)
    /\ \E simulation_start \in 0..MaxStart : rush = RushNew(simulation_start)

NextRush == ReadClock

SpecRush == InitRush /\ [][NextRush]_vars

-----------------------------------------------------------------------------
(* TrafficLightController::initialize on any grid *)

\* before the controller is built: no intersection has one
InitGrid ==
    /\ InitEngine
    /\ controllers = <<>>
    /\ grid \in Grids
    /\ historical = HistoricalDataNew(AnalyzerCapacity)
    /\ rush = RushNew(0)

CallInitialize ==
    /\ last_call = "none"
    /\ controllers' = InitializeOn(grid.intersections, grid.lanes)
    /\ last_call' = "initialize"
    /\ UNCHANGED <<engine_vars, historical, more_vars>>

NextInit == CallInitialize

SpecInit == InitGrid /\ [][NextInit]_vars

-----------------------------------------------------------------------------
(* Properties of the engine (Spec) *)

\* the live tasks: a task that returned keeps nothing but its id
Live(k) == tasks[k].pc # "done"

TotalOccupancy ==
    SumSeq([k \in 1..Len(LaneTable) |-> lanes[LaneTable[k].name].current_vehicle_length])

\* the vehicle sits in some lane's queue
OccupiesLane(id) ==
    \E n \in LaneNames : QueuePosition(lanes[n].vehicle_queue, id) # 0

\* the sum of the lengths of the live, non-crashed vehicles that occupy a lane
LiveUncrashedLength ==
    SumSeq([k \in TaskIds |->
        IF /\ Live(k)
           /\ tasks[k].vehicle.accident_timestamp = "None"
           /\ OccupiesLane(tasks[k].vehicle.id)
        THEN tasks[k].vehicle.length
        ELSE 0])

\* C2: whenever run_simulation is about to take its snapshot, the sum over all
\* lanes of current_vehicle_length equals the sum of the lengths of the live,
\* non-crashed vehicles occupying a lane.  (Refuted by the model.)
C2_OccupancyMatchesVehicles ==
    main_pc = "snapshot" => TotalOccupancy = LiveUncrashedLength

\* C6: an EmergencyVan at the signal check never takes the red-light wait
\* (which leads back to the admission): it either rolls for the accident or
\* goes on to install its override; and the step that installs the override
\* leaves the lane's origin intersection with an override containing the
\* vehicle's current lane and the task at the accident roll's outcome.
C6_EmergencyNeverWaitsAtRed ==
    [][\A k \in TaskIds :
          /\ (/\ tasks[k].pc = "signal"
              /\ IsEmergency(tasks[k].vehicle)
              /\ tasks'[k] # tasks[k])
             => /\ tasks'[k].pc \in {"override", "travel", "crash_wait"}
                /\ tasks'[k].pc = "override"
                     <=> ~IsLaneGreen(controllers, LaneInfo(CurrentLane(k)).from,
                                      CurrentLane(k))
          /\ (tasks[k].pc = "override" /\ tasks'[k] # tasks[k])
             => /\ IsEmergency(tasks[k].vehicle)
                /\ tasks'[k].pc \in {"travel", "crash_wait"}
                /\ LET ctrl == controllers'[LaneInfo(CurrentLane(k)).from]
                   IN /\ ctrl.emergency_override # NoOverride
                      /\ Contains(ctrl.emergency_override[1], CurrentLane(k))]_vars

\* C6 case: an EmergencyVan is past the signal on a lane that only its
\* override makes green
C6_Witness_VanOverrides ==
    \E k \in TaskIds :
        /\ Live(k)
        /\ IsEmergency(tasks[k].vehicle)
        /\ tasks[k].pc \in {"travel", "crash_wait"}
        /\ LET ctrl == controllers[LaneInfo(CurrentLane(k)).from]
           IN /\ ctrl.emergency_override = SomeOverride(<<CurrentLane(k)>>)
              /\ ~Contains(CurrentPhase(ctrl).green_lanes, CurrentLane(k))

\* C7: once the EmergencyVan that installed an override has left its lane and
\* its task has returned, no intersection still holds the override: every task
\* having returned, every emergency_override is None.  (Refuted by the model.)
C7_OverrideClearedAfterVan ==
    (tasks # <<>> /\ \A k \in TaskIds : ~Live(k))
        => \A id \in DOMAIN controllers : controllers[id].emergency_override = NoOverride

\* C8: for every vehicle at every point of its task, is_accident holds exactly
\* when severity is in 1..5 and accident_timestamp is set.  (Refuted by the
\* model.)
C8_AccidentFlagMatches ==
    \A k \in TaskIds :
        Live(k) =>
            (tasks[k].vehicle.is_accident
                <=> (/\ tasks[k].vehicle.severity \in 1..5
                     /\ tasks[k].vehicle.accident_timestamp # "None"))

Emitted(pc) == pc \in {"deactivate", "done"}

\* C16: a started journey emits exactly one VehicleData event, when it
\* terminates: with empty current_lane at the end of the route, naming the
\* crash lane after a crash; none emits twice, and its id leaves active_ids.
C16_OneEventAtTermination ==
    [][/\ Len(vehicle_events') > Len(vehicle_events) =>
             /\ Len(vehicle_events') = Len(vehicle_events) + 1
             /\ \A i \in 1..Len(vehicle_events) : vehicle_events'[i] = vehicle_events[i]
             /\ \E k \in TaskIds :
                   LET event == vehicle_events'[Len(vehicle_events')] IN
                   /\ event.id = tasks[k].vehicle.id
                   /\ ~Emitted(tasks[k].pc)
                   /\ Emitted(tasks'[k].pc)
                   /\ \A other \in TaskIds \ {k} : tasks'[other] = tasks[other]
                   /\ IF tasks[k].vehicle.accident_timestamp = "Some"
                      THEN /\ event.current_lane = Head(tasks[k].route)
                           /\ event.accident_timestamp = "Some"
                           /\ tasks'[k].pc = "done"
                      ELSE /\ tasks[k].route = <<>>
                           /\ event.current_lane = ""
       /\ \A k \in TaskIds :
             /\ ~Emitted(tasks[k].pc) /\ Emitted(tasks'[k].pc)
                   => Len(vehicle_events') = Len(vehicle_events) + 1
             /\ Emitted(tasks[k].pc) => Emitted(tasks'[k].pc)
             /\ tasks'[k].pc = "done" => tasks'[k].vehicle.id \notin active_ids'
      ]_vars

\* C16 case: a journey has ended, its single event is pending and its id is
\* no longer active
C16_Witness_EndedWithOneEvent ==
    \E k \in TaskIds :
        /\ tasks[k].pc = "done"
        /\ Cardinality({i \in 1..Len(vehicle_events) :
                           vehicle_events[i].id = tasks[k].vehicle.id}) = 1
        /\ tasks[k].vehicle.id \notin active_ids

\* C17: a snapshot is one instant: between the read of the lanes and the
\* drain of the pending events that make up one TrafficUpdate, no journey
\* changes a lane or the pending-event vector.
C17_SnapshotIsOneInstant ==
    [][main_pc = "drain" =>
          /\ lanes' = lanes
          /\ vehicle_events' # vehicle_events => main_pc' = "spawn"]_vars

\* C20: whichever way a journey ends, its lane occupancy is released: once
\* the task has ended no lane queue holds its id, and when every journey has
\* ended no lane counts any length or keeps an emergency block.
C20_OccupancyReleasedAtEnd ==
    /\ \A k \in TaskIds :
          tasks[k].pc = "done" =>
              \A n \in LaneNames :
                  QueuePosition(lanes[n].vehicle_queue, tasks[k].vehicle.id) = 0
    /\ tasks # <<>> /\ (\A k \in TaskIds : tasks[k].pc = "done") =>
          \A n \in LaneNames :
              /\ lanes[n].current_vehicle_length = 0
              /\ ~lanes[n].has_emergency_vehicle

\* how many entries of all the lane queues carry the id
QueueEntries(id) ==
    SumSeq([k \in 1..Len(LaneTable) |->
        Cardinality({j \in 1..Len(lanes[LaneTable[k].name].vehicle_queue) :
                        lanes[LaneTable[k].name].vehicle_queue[j].id = id})])

\* C29: however many red waits a non-emergency vehicle has gone through, its
\* id is in the lane queues at most once, and a lane whose queue holds its
\* entries only counts its length exactly once.  (Refuted by the model.)
C29_RedWaitKeepsOneAdmission ==
    \A k \in TaskIds :
        Live(k) /\ ~IsEmergency(tasks[k].vehicle) =>
            /\ QueueEntries(tasks[k].vehicle.id) <= 1
            /\ \A n \in LaneNames :
                  /\ lanes[n].vehicle_queue # <<>>
                  /\ \A j \in 1..Len(lanes[n].vehicle_queue) :
                        lanes[n].vehicle_queue[j].id = tasks[k].vehicle.id
                  => lanes[n].current_vehicle_length = tasks[k].vehicle.length

\* C30: a crashed vehicle has a severity in 1..3 and an accident timestamp;
\* once its task has passed the removal, no entry of its lane's queue carries
\* its id; and every crash event names a lane and carries a severity in 1..3.
\* (Refuted by the model.)
C30_CrashedVehicleLeavesLane ==
    /\ \A k \in TaskIds :
          tasks[k].pc \in {"crash_wait", "crash_deactivate", "crash_emit"} =>
              /\ tasks[k].vehicle.severity \in 1..3
              /\ tasks[k].vehicle.accident_timestamp = "Some"
    /\ \A k \in TaskIds :
          tasks[k].pc \in {"crash_deactivate", "crash_emit"} =>
              QueuePosition(lanes[CurrentLane(k)].vehicle_queue, tasks[k].vehicle.id) = 0
    /\ \A j \in 1..Len(vehicle_events) :
          vehicle_events[j].accident_timestamp = "Some" =>
              /\ vehicle_events[j].severity \in 1..3
              /\ vehicle_events[j].current_lane \in LaneNames

\* s is t or t with elements appended
Extends(s, t) == Len(s) >= Len(t) /\ SubSeq(s, 1, Len(t)) = t

\* C36: the drain moves every pending event, those pushed since the lanes
\* were read included, into the snapshot being computed and leaves none
\* pending; no other step removes or repeats a pending event (a push appends
\* to them) or touches the events of the snapshot, which go with it when it
\* is published.  So each pushed event is in exactly one snapshot, the first
\* computed after the push.
C36_EventInOneSnapshot ==
    [][IF main_pc = "drain" /\ main_pc' = "spawn"
       THEN /\ current_traffic_data'.vehicle_data = vehicle_events
            /\ vehicle_events' = <<>>
       ELSE /\ Extends(vehicle_events', vehicle_events)
            /\ Len(vehicle_events') <= Len(vehicle_events) + 1
            /\ \/ current_traffic_data'.vehicle_data = current_traffic_data.vehicle_data
               \/ main_pc = "spawn" /\ main_pc' = "snapshot"]_vars

\* C36 case: an event pushed after the lanes were read and before the drain
\* is in the snapshot being computed, and nothing is left pending
C36_Witness_LatePushDrained ==
    /\ main_pc = "spawn"
    /\ vehicle_events = <<>>
    /\ \E j \in 1..Len(current_traffic_data.vehicle_data) :
          LET event == current_traffic_data.vehicle_data[j] IN
          /\ event.accident_timestamp = "None"
          /\ \E n \in LaneNames :
                current_traffic_data.lane_occupancy[n] > lanes[n].current_vehicle_length

\* C37: in every reachable state a lane's has_emergency_vehicle is true
\* exactly when its vehicle queue holds an EmergencyVan.  (Refuted by the
\* model.)
C37_EmergencyFlagMatchesQueue ==
    \A n \in LaneNames :
        lanes[n].has_emergency_vehicle
            = (\E j \in 1..Len(lanes[n].vehicle_queue) :
                  lanes[n].vehicle_queue[j].vehicle_type = "EmergencyVan")

-----------------------------------------------------------------------------
(* Progress of the engine (SpecFair) *)

\* a non-emergency vehicle that took the red-light wait on its current lane
RedWaiting(k) ==
    /\ k \in TaskIds
    /\ tasks[k].pc = "admit"
    /\ tasks[k].route # <<>>
    /\ tasks[k].vehicle.is_in_lane

\* the vehicle found its lane green (or without a light) and went on
PassedSignal(k) ==
    /\ k \in TaskIds
    /\ tasks[k].pc \in {"travel", "crash_wait", "crash_deactivate", "crash_emit",
                        "deactivate", "done"}

\* C38: under fair scheduling an installed override is transient, every
\* outgoing lane of the intersection being green again at some later time,
\* and every non-emergency vehicle that took the red-light wait eventually
\* finds its lane green and goes on.  (Refuted by the model.)
C38_RedWaitEnds ==
    /\ \A id \in DOMAIN Initialize :
          \A n \in Range(Initialize[id].all_lanes) :
              (controllers[id].emergency_override # NoOverride)
                  ~> IsLaneGreen(controllers, id, n)
    /\ \A k \in 1..MaxTasks : RedWaiting(k) ~> PassedSignal(k)

\* C39: under fair scheduling every spawned journey eventually returns.
\* (Refuted by the model.)
C39_JourneyTerminates ==
    \A k \in 1..MaxTasks :
        (k \in TaskIds) ~> (k \in TaskIds /\ tasks[k].pc = "done")

-----------------------------------------------------------------------------
(* Properties of the controller (SpecCtl) *)

\* C3: for every managed intersection, after any sequence of the controller's
\* calls, current_phase_index is a valid index and, with no emergency override
\* installed, elapsed_in_phase < the current phase's duration.  (Refuted by
\* the model.)
C3_PhaseWellFormed ==
    \A id \in DOMAIN controllers :
        LET ctrl == controllers[id] IN
        /\ ctrl.current_phase_index < Len(ctrl.phases)
        /\ ctrl.emergency_override = NoOverride
               => ctrl.elapsed_in_phase < CurrentPhase(ctrl).duration

\* C4: is_lane_green is true for an intersection without a controller; under
\* an installed override it is exactly membership in the override's lanes;
\* otherwise it is exactly membership in the current phase's green lanes.
C4_GreenQuery ==
    \A id \in IntersectionIds, n \in LaneNames :
        IsLaneGreen(controllers, id, n) =
            CASE id \notin DOMAIN controllers -> TRUE
              [] id \in DOMAIN controllers
                 /\ controllers[id].emergency_override # NoOverride ->
                    n \in Range(controllers[id].emergency_override[1])
              [] OTHER ->
                    n \in Range(CurrentPhase(controllers[id]).green_lanes)

\* C4 case: an override is installed that leaves out a lane of the current
\* phase's green set, and the query answers red for that lane
C4_Witness_OverrideDecides ==
    \E id \in DOMAIN controllers, n \in LaneNames :
        /\ controllers[id].emergency_override # NoOverride
        /\ n \in Range(CurrentPhase(controllers[id]).green_lanes)
        /\ n \notin Range(controllers[id].emergency_override[1])
        /\ ~IsLaneGreen(controllers, id, n)

\* C5: a tick (update_all) leaves current_phase_index, elapsed_in_phase and
\* the phase durations of every intersection with an installed override
\* unchanged; holding for each tick, it holds for any number of them.
C5_TickFrozenUnderOverride ==
    [][CallUpdateAll =>
          \A id \in DOMAIN controllers :
              controllers[id].emergency_override # NoOverride
                  => /\ controllers'[id].current_phase_index
                            = controllers[id].current_phase_index
                     /\ controllers'[id].elapsed_in_phase
                            = controllers[id].elapsed_in_phase
                     /\ controllers'[id].phases = controllers[id].phases]_vars

\* C5 case: the last call was a tick, made under an installed override, in the
\* middle of a phase whose duration the elapsed time has reached
C5_Witness_TickUnderOverride ==
    /\ last_call = "update_all"
    /\ \E id \in DOMAIN controllers :
          /\ controllers[id].emergency_override # NoOverride
          /\ controllers[id].elapsed_in_phase > 0
          /\ controllers[id].elapsed_in_phase + 1 >= CurrentPhase(controllers[id]).duration

\* C28: on a tick (update_all) a controller without an override keeps its
\* phases and, its current phase having duration d with elapsed_in_phase = e,
\* moves to phase index + 1 modulo the phase count with elapsed reset to 0
\* exactly when e + 1 >= d, and otherwise stays in the phase with elapsed
\* e + 1.  elapsed_in_phase is 0 on entering a phase and grows by one per
\* tick, so with unchanged durations the phase of duration d >= 1 is left on
\* the d-th tick after it was entered and on no earlier one, a phase of
\* duration 1 on every tick, and the indices are visited cyclically.
C28_RotatesOnDthTick ==
    [][CallUpdateAll =>
          \A id \in DOMAIN controllers :
              LET ctrl == controllers[id]
                  after == controllers'[id]
              IN ctrl.emergency_override = NoOverride
                  => /\ after.phases = ctrl.phases
                     /\ after.emergency_override = NoOverride
                     /\ IF ctrl.elapsed_in_phase + 1 >= CurrentPhase(ctrl).duration
                        THEN /\ after.current_phase_index
                                    = (ctrl.current_phase_index + 1) % Len(ctrl.phases)
                             /\ after.elapsed_in_phase = 0
                        ELSE /\ after.current_phase_index = ctrl.current_phase_index
                             /\ after.elapsed_in_phase = ctrl.elapsed_in_phase + 1]_vars

\* C28 case: on the durations initialize gave, ticks have taken a controller
\* of two phases out of phase 0 and up to the last tick before it leaves
\* phase 1 for phase 0 again
C28_Witness_SecondRound ==
    /\ last_call = "update_all"
    /\ \E id \in DOMAIN controllers :
          LET ctrl == controllers[id] IN
          /\ ctrl.emergency_override = NoOverride
          /\ Len(ctrl.phases) = 2
          /\ ctrl.phases = Initialize[id].phases
          /\ ctrl.current_phase_index = 1
          /\ ctrl.elapsed_in_phase + 1 = CurrentPhase(ctrl).duration

\* the controllers after a call differ from those before at most in the
\* phase durations, which are those of new_duration(id, p)
OnlyDurations(before, after, new_duration(_, _)) ==
    /\ DOMAIN after = DOMAIN before
    /\ \A id \in DOMAIN before :
          /\ after[id].intersection = before[id].intersection
          /\ after[id].all_lanes = before[id].all_lanes
          /\ after[id].current_phase_index = before[id].current_phase_index
          /\ after[id].elapsed_in_phase = before[id].elapsed_in_phase
          /\ after[id].emergency_override = before[id].emergency_override
          /\ Len(after[id].phases) = Len(before[id].phases)
          /\ \A p \in 1..Len(before[id].phases) :
                /\ after[id].phases[p].green_lanes = before[id].phases[p].green_lanes
                /\ after[id].phases[p].duration = new_duration(id, p)

\* C31: set_phase_duration(intersection_id, phase_index, new_duration) leaves
\* every controller as it was when the intersection has no controller or
\* phase_index is not below its number of phases; otherwise the duration of
\* the phase at phase_index becomes new_duration and nothing else changes.
C31_SetPhaseDurationExact ==
    [][\A intersection_id \in IntersectionIds, phase_index \in PhaseIndexes,
          new_duration \in 0..MaxDuration :
          /\ last_call' = "set_phase_duration"
          /\ controllers' = SetPhaseDuration(controllers, intersection_id,
                                             phase_index, new_duration)
          => LET valid == /\ intersection_id \in DOMAIN controllers
                          /\ phase_index < Len(controllers[intersection_id].phases)
                 expected(id, p) ==
                     IF valid /\ id = intersection_id /\ p = phase_index + 1
                     THEN new_duration
                     ELSE controllers[id].phases[p].duration
             IN /\ OnlyDurations(controllers, controllers', expected)
                /\ ~valid => controllers' = controllers]_vars

\* C31 case: set_phase_duration has given the second phase of a controller
\* the duration 0 while its first phase keeps the initial duration
C31_Witness_SecondPhaseSet ==
    /\ last_call = "set_phase_duration"
    /\ \E id \in DOMAIN controllers :
          /\ Len(controllers[id].phases) = 2
          /\ controllers[id].phases[2].duration = 0
          /\ controllers[id].phases[1].duration = InitialPhaseDuration

\* C32: adjust_phases_based_on_prediction(intersection_id, predicted_data)
\* gives each phase of that intersection's controller the duration base + 1
\* when some lane of its green set has a predicted congestion above 0.8 and
\* base otherwise (exactly 0.8, or a lane absent from the prediction, does
\* not extend the phase); green sets, index, elapsed time, override and the
\* other controllers are unchanged.
C32_PredictionSetsBaseOrBasePlusOne ==
    [][\A intersection_id \in IntersectionIds, predicted_data \in PredictedData :
          /\ last_call' = "adjust_phases_based_on_prediction"
          /\ controllers' = AdjustPhasesBasedOnPrediction(controllers, intersection_id,
                                                          predicted_data)
          => LET expected(id, p) ==
                     IF id # intersection_id
                     THEN controllers[id].phases[p].duration
                     ELSE IF \E n \in Range(controllers[id].phases[p].green_lanes) :
                                /\ n \in DOMAIN predicted_data
                                /\ predicted_data[n] > 80
                          THEN PredictionBase + 1
                          ELSE PredictionBase
             IN OnlyDurations(controllers, controllers', expected)]_vars

\* C32 case: a prediction has extended one phase of a controller and not the
\* other
C32_Witness_OnePhaseExtended ==
    /\ last_call = "adjust_phases_based_on_prediction"
    /\ \E id \in DOMAIN controllers :
          /\ Len(controllers[id].phases) = 2
          /\ controllers[id].phases[1].duration = PredictionBase + 1
          /\ controllers[id].phases[2].duration = PredictionBase

-----------------------------------------------------------------------------
(* Properties of initialize (SpecInit) *)

\* the lanes of the grid that leave the intersection id, in the grid's order
Outgoing(id) == SelectSeq(grid.lanes, LAMBDA lane : lane.from = id)

\* C33: initialize builds a controller exactly for each TrafficLight
\* intersection with an outgoing lane; it has two 8 s phases, the horizontal
\* lanes then the vertical ones, when both groups are non-empty, and one 8 s
\* phase of all outgoing lanes otherwise; it starts at phase 0, elapsed 0, no
\* override; and every outgoing lane is green in exactly one phase.
C33_InitializeBuildsPhases ==
    last_call = "initialize" =>
        /\ DOMAIN controllers =
               {i.id : i \in {j \in Range(grid.intersections) :
                                 /\ j.control = "TrafficLight"
                                 /\ Outgoing(j.id) # <<>>}}
        /\ \A id \in DOMAIN controllers :
              LET ctrl == controllers[id]
                  names(keep(_)) ==
                      MapName(SelectSeq(Outgoing(id), LAMBDA lane : keep(lane)))
                  row(lane) == lane.from[1] = lane.to[1]
                  column(lane) == lane.from[2] = lane.to[2]
                  any(lane) == TRUE
              IN /\ IF names(row) # <<>> /\ names(column) # <<>>
                    THEN ctrl.phases = << [green_lanes |-> names(row), duration |-> 8],
                                          [green_lanes |-> names(column), duration |-> 8] >>
                    ELSE ctrl.phases = << [green_lanes |-> names(any), duration |-> 8] >>
                 /\ ctrl.current_phase_index = 0
                 /\ ctrl.elapsed_in_phase = 0
                 /\ ctrl.emergency_override = NoOverride
                 /\ \A n \in Range(names(any)) :
                       Cardinality({p \in 1..Len(ctrl.phases) :
                                       n \in Range(ctrl.phases[p].green_lanes)}) = 1

\* C33 case: initialize has built a controller of two phases and one of a
\* single phase, and left a TrafficLight intersection without outgoing lanes
\* without a controller
C33_Witness_BothShapesAndSkip ==
    /\ last_call = "initialize"
    /\ \E id \in DOMAIN controllers : Len(controllers[id].phases) = 2
    /\ \E id \in DOMAIN controllers : Len(controllers[id].phases) = 1
    /\ \E i \in Range(grid.intersections) :
          i.control = "TrafficLight" /\ i.id \notin DOMAIN controllers

-----------------------------------------------------------------------------
(* Properties of HistoricalData (SpecHist) *)

\* C10: for every capacity and every sequence of update_occupancy and
\* update_waiting_time calls, every occupancy and waiting-time deque holds at
\* most `capacity` samples.  (Refuted by the model.)
C10_DequesWithinCapacity ==
    /\ \A id \in DOMAIN historical.occupancy_history :
          Len(historical.occupancy_history[id]) <= historical.capacity
    /\ \A id \in DOMAIN historical.waiting_time_history :
          Len(historical.waiting_time_history[id]) <= historical.capacity

\* the last n elements of s (all of s when it has fewer)
LastN(s, n) == IF Len(s) <= n THEN s ELSE SubSeq(s, Len(s) - n + 1, Len(s))

\* the deque of an intersection in a history map (empty before its first sample)
DequeOf(history, id) == IF id \in DOMAIN history THEN history[id] ELSE <<>>

\* the step from `before` to `after` appends at most one sample to each
\* deque and keeps the window of the last `capacity` samples
SlidingWindowStep(before, after, capacity) ==
    /\ DOMAIN before \subseteq DOMAIN after
    /\ \A id \in DOMAIN after :
          \/ id \in DOMAIN before /\ after[id] = before[id]
          \/ \E sample \in SampleValues :
                after[id] = LastN(Append(DequeOf(before, id), sample), capacity)

\* C34: each call leaves in every deque it appends to exactly the last
\* min(k, capacity) samples in arrival order (a full deque loses its oldest
\* sample and only that one) and leaves the other deques as they were; step
\* by step this gives the last min(k, capacity) of any k samples.  (Refuted
\* by the model.)
C34_SlidingWindow ==
    [][/\ SlidingWindowStep(historical.occupancy_history,
                            historical'.occupancy_history, historical.capacity)
       /\ SlidingWindowStep(historical.waiting_time_history,
                            historical'.waiting_time_history, historical.capacity)]_vars

-----------------------------------------------------------------------------
(* Properties of the consumers (SpecMq) *)

\* what processing a delivery asks for before its ack
RequiredProgress(c, body) ==
    CASE ~body.valid -> {}
      [] body.valid /\ c = "analyzer" -> {"history", "latest", "alerts", "event"}
      [] body.valid /\ c = "controller" ->
            IF body.intersection # <<>> THEN {"adjust"} ELSE {}

\* C11: in both consumers a delivery is acknowledged only once all its
\* processing is done (history update, latest observation, every alert and
\* the traffic event published; the LightAdjustment published), and a
\* delivery whose processing broke off stays unacknowledged with the broker.
C11_AckAfterProcessing ==
    /\ \A c \in {"analyzer", "controller"} :
          /\ \A i \in 1..Len(mq.acked[c]) :
                /\ mq.acked[c][i].progress = RequiredProgress(c, mq.acked[c][i].body)
                /\ mq.acked[c][i].tag \notin mq.unacked[c]
          /\ mq[c].pc = "failed" =>
                /\ mq[c].delivery[1].tag \in mq.unacked[c]
                /\ \A i \in 1..Len(mq.acked[c]) :
                      mq.acked[c][i].tag # mq[c].delivery[1].tag
    /\ \A i \in 1..Len(mq.acked["analyzer"]) :
          LET a == mq.acked["analyzer"][i] IN
          a.body.valid =>
              /\ mq.latest_data # <<>>
              /\ DOMAIN historical.occupancy_history # {}
              /\ \E j \in 1..Len(mq.published) :
                    /\ mq.published[j].queue = "traffic_events"
                    /\ mq.published[j].tag = a.tag
              /\ AnalyzeTrafficData(a.body.current_data) # {}
                    => \E j \in 1..Len(mq.published) :
                          /\ mq.published[j].queue = "congestion_alerts"
                          /\ mq.published[j].tag = a.tag

\* C11 case: the Analyzer has acknowledged an update that raised an alert, and
\* the Controller broke off on a publish with its delivery unacknowledged
C11_Witness_AckedAndLeftUnacked ==
    /\ \E i \in 1..Len(mq.acked["analyzer"]) :
          /\ mq.acked["analyzer"][i].body.valid
          /\ AnalyzeTrafficData(mq.acked["analyzer"][i].body.current_data) # {}
    /\ mq.controller.pc = "failed"
    /\ mq.controller.delivery[1].body.valid
    /\ mq.unacked["controller"] # {}

\* the publications made on a queue while handling a delivery
Publications(queue, tag) ==
    {j \in 1..Len(mq.published) :
        mq.published[j].queue = queue /\ mq.published[j].tag = tag}

\* every delivery a consumer has taken: the acknowledged ones and the current one
Deliveries(c) ==
    {[tag |-> mq.acked[c][i].tag, body |-> mq.acked[c][i].body, acked |-> TRUE]
        : i \in 1..Len(mq.acked[c])}
    \cup {[tag |-> mq[c].delivery[k].tag, body |-> mq[c].delivery[k].body, acked |-> FALSE]
        : k \in 1..Len(mq[c].delivery)}

HandlingInvalid(c) == mq[c].delivery # <<>> /\ ~mq[c].delivery[1].body.valid

\* C25: a payload that is not valid UTF-8 / JSON of the expected type is
\* acked and skipped: history deques and latest observation stay as they
\* are, nothing is published, and the consumer goes on to its next delivery.
C25_InvalidPayloadSkipped ==
    [][\A c \in {"analyzer", "controller"} :
          \* the delivery arrives: straight to the ack
          /\ mq[c].delivery = <<>> /\ mq'[c].delivery # <<>>
                /\ ~mq'[c].delivery[1].body.valid
                => /\ mq'[c].pc = "ack"
                   /\ mq'.published = mq.published
                   /\ mq'.latest_data = mq.latest_data
                   /\ historical' = historical
          \* the consumer's next step with it: the ack, then the next delivery
          /\ HandlingInvalid(c) /\ mq'[c] # mq[c]
                => /\ mq'.published = mq.published
                   /\ mq'.latest_data = mq.latest_data
                   /\ historical' = historical
                   /\ \/ mq'[c].pc = "failed"
                      \/ /\ mq'[c] = ConsumerNew
                         /\ mq'.unacked[c] = mq.unacked[c] \ {mq[c].delivery[1].tag}
                         /\ Len(mq'.acked[c]) = Len(mq.acked[c]) + 1
      ]_vars

\* C25 case: the Analyzer has acked an unparsable body and is working on the
\* delivery after it, with nothing published for the skipped one
C25_Witness_NextAfterInvalid ==
    /\ \E i \in 1..Len(mq.acked["analyzer"]) :
          /\ ~mq.acked["analyzer"][i].body.valid
          /\ Publications("traffic_events", mq.acked["analyzer"][i].tag) = {}
    /\ mq.analyzer.delivery # <<>>
    /\ mq.analyzer.delivery[1].body.valid
    /\ mq.analyzer.pc = "event"

\* C26: a failed publish never ends the publishing component: the message
\* is dropped, the consumer acks the current delivery and goes on.  What
\* can end a consumer loop is at most a failed ack.
C26_PublishFailureSurvived ==
    [][\A c \in {"analyzer", "controller"} :
          mq'[c].pc = "failed" /\ mq[c].pc # "failed" => mq[c].pc = "ack"]_vars

\* the TrafficEvents published for the acknowledged delivery a
EventsOf(a) ==
    {mq.published[k].body : k \in Publications("traffic_events", a.tag)}

\* the event's accident list is that of the update's entries with an
\* accident timestamp, in their order, and total_accidents is its length
AccidentsReported(event, vehicle_data) ==
    LET crashed == SelectSeq(vehicle_data, LAMBDA v : v.accident_timestamp = "Some")
    IN /\ event.total_accidents = Len(event.accident_details)
       /\ event.total_accidents = Len(crashed)
       /\ \A k \in 1..Len(crashed) :
             /\ event.accident_details[k].vehicle_id = crashed[k].id
             /\ event.accident_details[k].severity = crashed[k].severity
             /\ event.accident_details[k].current_lane = crashed[k].current_lane

\* the sum of the waiting times of the entries
TotalWaiting(vehicle_data) ==
    SumSeq([k \in 1..Len(vehicle_data) |-> vehicle_data[k].waiting_time])

-----------------------------------------------------------------------------
(* Properties of one spawn round (SpecFleet) *)

\* the journey of a vehicle id has been let into a lane
Admitted(id) ==
    \E k \in TaskIds :
        /\ tasks[k].vehicle.id = id
        /\ IF tasks[k].pc = "done" THEN TRUE ELSE tasks[k].vehicle.is_in_lane

\* C12: add_vehicle lets a vehicle of any type in, an EmergencyVan included,
\* only if the lane has no emergency block and the occupied length plus the
\* vehicle's length fits the lane; a refused add leaves the lane unchanged.
C12_AdmissionNeedsRoom ==
    [][\A k \in TaskIds :
          tasks[k].pc = "admit" /\ tasks[k].route # <<>> =>
              LET lane == lanes[Head(tasks[k].route)] IN
              /\ tasks'[k].pc = "signal" => CanAddVehicle(lane, tasks[k].vehicle)
              /\ ~CanAddVehicle(lane, tasks[k].vehicle) /\ tasks'[k] # tasks[k]
                    => lanes' = lanes]_vars

\* C13: a lane's queue is first in, first out: the vehicle taken out of a lane
\* is always the one at the front of its queue.
C13_RemovedIsFront ==
    [][\A n \in LaneNames :
          Len(lanes'[n].vehicle_queue) < Len(lanes[n].vehicle_queue)
              => lanes'[n].vehicle_queue = Tail(lanes[n].vehicle_queue)]_vars

\* C14: vehicles are let into a lane in the order of their first admission
\* attempt: no vehicle, an EmergencyVan included, is admitted while one that
\* tried before it is still waiting.
C14_AdmittedInArrivalOrder ==
    \A i, j \in 1..Len(arrivals) :
        i < j /\ Admitted(arrivals[j]) => Admitted(arrivals[i])

-----------------------------------------------------------------------------
(* Properties of the spawn loop (SpecPair) *)

\* the lane's occupancy ratio is above 0.75 now
OverOccupied(n) == 4 * lanes[n].current_vehicle_length > 3 * lanes[n].length_meters

\* C15: a route handed to a spawned vehicle has no accident lane and no lane
\* whose occupancy exceeds 0.75 at the moment of the spawn; a spawn without
\* such a route is discarded: no task, no active id, no lane change.
C15_RouteAvoidsBusyLanes ==
    [][main_pc = "spawn" /\ main_pc' = "spawn" /\ next_vehicle_id' # next_vehicle_id =>
          /\ lanes' = lanes
          /\ IF Len(tasks') > Len(tasks)
             THEN \A i \in 1..Len(tasks'[Len(tasks')].route) :
                     LET n == tasks'[Len(tasks')].route[i] IN
                     /\ ~lanes[n].has_accident
                     /\ ~OverOccupied(n)
             ELSE /\ tasks' = tasks
                  /\ active_ids' = active_ids]_vars

-----------------------------------------------------------------------------
(* Properties of the lock skeleton (SpecLocks) *)

\* the place of a Mutex in the documented acquisition order (0: not in it)
LockRank(m) ==
    CASE m = "intersections" -> 1
      [] m = "lanes" -> 2
      [] m = "controller" -> 3
      [] OTHER -> 0

\* C18: a task that holds more than one shared lock took them in the order
\* intersections, lanes, controller; none takes intersections while it holds
\* lanes.
C18_LockOrder ==
    \A task \in LockTasks :
        \A i, j \in 1..Len(locks.held[task]) :
            i < j => /\ LockRank(locks.held[task][i]) > 0
                     /\ LockRank(locks.held[task][i]) < LockRank(locks.held[task][j])

\* C19: no task is suspended in a sleep (admission retry, accident wait, red
\* wait, crash wait, traversal, the 1 s of the tick and of the publish loop)
\* while it holds any of the five shared locks.
C19_NoLockAcrossSleep ==
    \A task \in LockTasks : Suspended(task) => locks.held[task] = <<>>

\* C19 case: a journey sleeps at a red light and the light loop sleeps its
\* second, both after a critical section, while run_simulation holds a lock
C19_Witness_SleepersBesideHolder ==
    /\ \E task \in LockTasks : task[1] = "vehicle" /\ locks.pc[task] = "red_sleep"
    /\ locks.pc[<<"light", 0>>] = "tick_sleep"
    /\ locks.held[<<"main", 0>>] # <<>>

\* the task stands at a Mutex::lock whose Mutex the other task holds
WaitsFor(task, other) ==
    \E st \in StepsAt(task, "lock") : Contains(locks.held[other], st.lock)

\* C40: no interleaving of run_simulation, the light loop and the vehicle
\* tasks deadlocks on the five shared locks: there is never a group of tasks
\* each of which stands at a lock held by a task of the group (a task that
\* locks a Mutex it holds itself included), although the snapshot block
\* takes lanes then intersections and spawn_vehicle intersections then lanes.
C40_NoDeadlock ==
    \A group \in SUBSET LockTasks :
        group # {} => \E task \in group : \A other \in group : ~WaitsFor(task, other)

\* C40 case: in its snapshot block run_simulation holds lanes and stands at
\* intersections.lock while a journey holds intersections for its lookup
C40_Witness_MainWaitsHoldingOther ==
    \E task \in LockTasks :
        /\ task[1] = "vehicle"
        /\ WaitsFor(<<"main", 0>>, task)
        /\ locks.held[<<"main", 0>>] = <<"lanes">>
        /\ locks.held[task] = <<"intersections">>

-----------------------------------------------------------------------------
(* Properties of the broker (SpecBroker, SpecBrokerFair) *)

\* the message has left its queue
Delivered(queue, id) ==
    /\ id \in 1..broker.published[queue]
    /\ ~Contains(broker.queues[queue], id)

\* C21: the Monitor gets a mirror of every queue: each message published on
\* one of the four queues is persisted by the Monitor and is also delivered
\* to the queue's functional consumer (Analyzer for traffic_data, Controller
\* for congestion_alerts).
C21_MonitorMirrorsQueues ==
    \A queue \in QueueNames :
        \A id \in 1..broker.published[queue] :
            Delivered(queue, id) =>
                /\ <<queue, id>> \in broker.received["monitor"]
                /\ \A consumer \in FunctionalConsumers(queue) :
                      <<queue, id>> \in broker.received[consumer]

\* C24: every LightAdjustment published on light_adjustments is routed back
\* into the Controller and eventually changes the phase durations of the
\* named intersection's controller.
C24_AdjustmentReachesController ==
    (broker.published["light_adjustments"] > 0)
        ~> (\/ \E id \in 1..broker.published["light_adjustments"] :
                  <<"light_adjustments", id>> \in broker.received["controller"]
            \/ \E id \in DOMAIN controllers :
                  \E i \in 1..Len(controllers[id].phases) :
                      controllers[id].phases[i].duration
                          # Initialize[id].phases[i].duration)

-----------------------------------------------------------------------------
(* Properties of the spawn count (SpecRush) *)

\* elapsed seconds at the last reading of the clock
Elapsed == rush.current_time - rush.simulation_start

\* the triangular wave in twentieths, written from its two ramps: 2 at the
\* start of a cycle, rising by 3/20 a second to 5 at second 20, falling back
\* by 3/20 a second
WaveTwentieths(t) ==
    LET c == t % 40 IN
    IF c <= 20 THEN 40 + 3 * c ELSE 100 - 3 * (c - 20)

\* n is the integer nearest to x / 20, the upper one at a tie
Nearest(n, x) ==
    /\ 20 * n - x <= 10
    /\ x - 20 * n < 10

\* C27: the spawn count is the 40 s triangular wave rounded to the nearest
\* integer: round(2 + 3c/20) for c = t mod 40 <= 20, round(5 - 3(c - 20)/20)
\* otherwise; it lies in 2..5, has period 40, and is 2, 5, 2, 5 at
\* t = 0, 20, 40, 60.
C27_SpawnCountIsTriangularWave ==
    rush.spawn_count # <<>> =>
        LET n == rush.spawn_count[1] IN
        /\ Nearest(n, WaveTwentieths(Elapsed))
        /\ n \in 2..5
        /\ n = SimulateRushHour(rush.simulation_start, rush.current_time + 40)
        /\ Elapsed \in {0, 40, 80} => n = 2
        /\ Elapsed \in {20, 60} => n = 5

\* C27 case: second 60 of a run that started late: the second peak
C27_Witness_SecondPeak ==
    /\ rush.simulation_start > 0
    /\ rush.spawn_count = <<5>>
    /\ Elapsed = 60

====
